---- MODULE Spec2Model ----
(***************************************************************************)
(* Prescription management API: the prescription workflow (create,         *)
(* modify, approve, issue, delete), bloodwork completion and the           *)
(* authorization guard in front of them.  Every request handler runs in    *)
(* its own worker; each SQL statement is executed on its own autocommit    *)
(* connection, so handlers of concurrent requests interleave between       *)
(* statements.                                                             *)
(***************************************************************************)
EXTENDS Integers, Sequences, FiniteSets, TLC

\* ------------------------------------------------------------------ bounds
MaxWorkers == 2
MaxTime == 1
MaxPrescriptions == 1
MaxIds == 2
MaxInstitutions == 2

\* --------------------------------------------------------- program constants
MEDICAL_PRACTICE == 1
PHARMACY == 2
FULL_BLOOD_COUNT == 1
HTTP_200_OK == 200
HTTP_201_CREATED == 201
HTTP_204_NO_CONTENT == 204
HTTP_400_BAD_REQUEST == 400
HTTP_401_UNAUTHORIZED == 401
HTTP_403_FORBIDDEN == 403
HTTP_404_NOT_FOUND == 404
HTTP_422_UNPROCESSABLE_ENTITY == 422
HTTP_500_INTERNAL_SERVER_ERROR == 500
\* random.seed(1); random.randint(0, 99999999)
SeededShortCode == 18034063

\* ----------------------------------------------------------- optional values
\* Python None / SQL NULL is the empty sequence, a present value x is <<x>>.
None == <<>>
Some(x) == <<x>>
Get(o) == o[1]

Workers == 1..MaxWorkers
PrescriptionIds == 1..MaxPrescriptions
Times == 0..MaxTime

VARIABLES
    repeat_prescriptions,   \* rows of table repeat_prescriptions
    blood_requests,         \* rows of table blood_requests
    role_by_user,           \* rows of table role_by_user
    permissions_by_role,    \* rows of table permissions_by_role
    now,                    \* the wall clock read by datetime.now()
    created,                \* number of prescription ids handed out so far
    requests,               \* per worker: the request it is handling
    last,                   \* the answer the client has just received
    recording,              \* whether answers are kept in last
    script,                 \* number of requests the scripted client has completed
    issued_tokens,          \* the tokens create_token has returned, with their issue data
    added_institutions,     \* rows inserted into table institutions
    pending_users,          \* rows of table pending_users
    registration_tokens,    \* rows of table registration_tokens
    added_users,            \* rows inserted into table users
    added_assignments       \* rows inserted into table pharmacy_assignments

vars == <<repeat_prescriptions, blood_requests, role_by_user,
          permissions_by_role, now, created, requests, last, recording, script,
          issued_tokens, added_institutions, pending_users,
          registration_tokens, added_users, added_assignments>>
\* The tables of registration and of pharmacy preference.
accounts == <<added_institutions, pending_users, registration_tokens,
              added_users, added_assignments>>
\* What no request handler of the workflow writes.
edges == <<role_by_user, permissions_by_role, recording, script, issued_tokens,
           accounts>>

\* ------------------------------------------------------- reference tables
\* Tables the workflow only reads.
institutions ==
    { [institution_id |-> "mp1", institution_type |-> MEDICAL_PRACTICE],
      [institution_id |-> "ph1", institution_type |-> PHARMACY],
      [institution_id |-> "ph2", institution_type |-> PHARMACY] }

users ==
    { [username |-> "gp",    institution_id |-> Some("mp1")],
      [username |-> "admin", institution_id |-> None],
      [username |-> "tech",  institution_id |-> Some("ph1")],
      [username |-> "tech2", institution_id |-> Some("ph1")],
      [username |-> "tech3", institution_id |-> Some("ph2")],
      [username |-> "pat",   institution_id |-> Some("mp1")] }

pharmacy_assignments ==
    { [username |-> "pat",  institution_id |-> "ph1"],
      [username |-> "tech", institution_id |-> "ph2"] }

medications ==
    { [medication_id |-> "med_plain", bloodwork_requirement |-> None],
      [medication_id |-> "med_blood", bloodwork_requirement |-> Some(FULL_BLOOD_COUNT)] }

roles ==
    { [role_id |-> "r_gp"], [role_id |-> "r_admin"], [role_id |-> "r_tech"],
      [role_id |-> "r_patient"] }

permissions ==
    { [permission_id |-> "p_all",      name |-> "*"],
      [permission_id |-> "p_create",   name |-> "prescription.create"],
      [permission_id |-> "p_modify",   name |-> "prescription.modify"],
      [permission_id |-> "p_approve",  name |-> "prescription.approve"],
      [permission_id |-> "p_issue",    name |-> "prescription.issue"],
      [permission_id |-> "p_delete",   name |-> "prescription.delete"],
      [permission_id |-> "p_complete", name |-> "bloodwork-request.complete"],
      [permission_id |-> "p_prefer",   name |-> "patient.pharmacy.own"] }

\* ------------------------------------------------------------ request inputs
Usernames == {"gp", "tech", "tech3", "pat", "ghost"}
\* A bearer token: None (missing or undecodable) or the username it carries.
Tokens == {None, Some("pat"), Some("gp"), Some("admin"), Some("tech"), Some("tech3")}
\* Tokens that jwt.decode refuses (not a JWT, signed with another key, past
\* its exp claim) and a validly signed token that carries no uid claim.
MalformedToken == <<"JWTError", "malformed">>
BadSignatureToken == <<"JWTError", "signature">>
ExpiredToken == <<"JWTError", "expired">>
NoSubjectToken == <<"payload", "no uid">>
RejectedTokens ==
    {None, MalformedToken, BadSignatureToken, ExpiredToken, NoSubjectToken}
\* The tokens of the guard's own cases: the rejected ones, tokens of stored
\* identities, and the token of an identity that is no longer stored.
AuthTokens ==
    RejectedTokens \cup {Some("pat"), Some("admin"), Some("tech"), Some("ghost")}
MedicationIds == {"med_plain", "med_blood", "med_none"}
TimeStatements == {"R/2021-01-01/P30D", "R/2021-01-01T00:00:00Z/P30D", "monthly"}
\* Path ids: a stored id, a well-formed id nothing is stored under, a malformed id.
UnknownId == 0
MalformedId == 0 - 1
PathIds == PrescriptionIds \cup {UnknownId, MalformedId}

\* ---------------------------------------------------------------- outcomes
Ok(v) == [ok |-> TRUE, val |-> v]
HTTPException(status_code, detail) ==
    [ok |-> FALSE, status |-> status_code, detail |-> detail]

\* cursor.fetchone(): None on an empty result, else one of its rows.
FetchOne(rows) == IF rows = {} THEN {None} ELSE {Some(r) : r \in rows}

\* ------------------------------------------------------------------ queries
\* Table users: the rows of the reference table and the rows inserted by
\* create_user.
AllUsers ==
    users \cup {[username |-> u.username, institution_id |-> u.institution_id] :
                    u \in added_users}

get_user_by_username(username) ==
    FetchOne({u \in AllUsers : u.username = username})

get_medical_practice(practice_id) ==
    FetchOne({i \in institutions :
                /\ i.institution_type = MEDICAL_PRACTICE
                /\ Some(i.institution_id) = practice_id})

\* Table pharmacy_assignments: the rows of the reference table and the rows
\* inserted by set_users_pharmacy.
AllAssignments == pharmacy_assignments \cup added_assignments

\* SELECT ... WHERE username = %s without ORDER BY, then fetchone(): any one
\* of the identity's rows.
get_users_pharmacy_assignment(username) ==
    FetchOne({a \in AllAssignments : a.username = username})

get_medication_by_id(medication_id) ==
    FetchOne({m \in medications : m.medication_id = medication_id})

\* Faulty variant: only one of the identity's roles is looked at.
get_user_permissions_one_role(username) ==
    LET assigned == {rbu \in role_by_user : rbu.username = username}
        one == IF assigned = {} THEN {}
               ELSE {CHOOSE rbu \in assigned : TRUE}
    IN  { p.name : p \in
            { p \in permissions :
                \E rbu \in one, pbr \in permissions_by_role :
                    /\ pbr.role_id = rbu.role_id
                    /\ pbr.permission_id = p.permission_id } }

\* roles JOIN role_by_user JOIN permissions_by_role JOIN permissions
\* WHERE rbu.username = %s
get_user_permissions(username) ==
    { p.name : p \in
        { p \in permissions :
            \E r \in roles, rbu \in role_by_user, pbr \in permissions_by_role :
                /\ rbu.username = username
                /\ rbu.role_id = r.role_id
                /\ pbr.role_id = r.role_id
                /\ pbr.permission_id = p.permission_id } }

get_prescription(prescription_id) ==
    FetchOne({rp \in repeat_prescriptions : rp.prescription_id = prescription_id})

\* ------------------------------------------------------------------- guard
CREDENTIALS_EXCEPTION ==
    HTTPException(HTTP_401_UNAUTHORIZED, "Could not validate credentials")
NOT_ALLOWED_EXCEPTION == HTTPException(HTTP_403_FORBIDDEN, "Unauthorized.")
INTERNAL_SERVER_ERROR ==
    HTTPException(HTTP_500_INTERNAL_SERVER_ERROR, "Internal Server Error")

\* jwt.decode: JWTError, or the payload with its uid claim.
\* A token made by create_token is <<"claims", exp, uid>>: jwt.decode
\* compares its exp, in whole seconds, with the clock and raises
\* ExpiredSignatureError, a JWTError, when exp < now.
jwt_decode(token) ==
    IF Len(token) = 3
    THEN IF token[2] < now THEN [JWTError |-> TRUE, uid |-> None]
         ELSE [JWTError |-> FALSE, uid |-> Some(token[3])]
    ELSE IF Len(token) = 2
    THEN IF token[1] = "JWTError" THEN [JWTError |-> TRUE, uid |-> None]
         ELSE [JWTError |-> FALSE, uid |-> None]
    ELSE [JWTError |-> FALSE, uid |-> token]

\* Faulty variant: a payload without uid is looked up like any other.
get_current_user_unchecked_uid(token) ==
    IF token = None THEN CREDENTIALS_EXCEPTION
    ELSE LET payload == jwt_decode(token)
         IN  IF payload.JWTError THEN CREDENTIALS_EXCEPTION
             ELSE IF payload.uid = None THEN INTERNAL_SERVER_ERROR
             ELSE LET found == CHOOSE r \in get_user_by_username(Get(payload.uid)) : TRUE
                  IN  IF found = None THEN INTERNAL_SERVER_ERROR
                      ELSE Ok(Get(found))

get_current_user(token) ==
    IF token = None THEN CREDENTIALS_EXCEPTION
    ELSE LET payload == jwt_decode(token)
         IN  IF payload.JWTError THEN CREDENTIALS_EXCEPTION
             ELSE IF payload.uid = None THEN CREDENTIALS_EXCEPTION
             ELSE LET found == CHOOSE r \in get_user_by_username(Get(payload.uid)) : TRUE
                  IN  \* User(**None) raises TypeError
                      IF found = None THEN INTERNAL_SERVER_ERROR
                      ELSE Ok(Get(found))

\* Faulty variant: the wildcard is treated like any other permission name.
check_user_by_permissions_no_wildcard(perms, user) ==
    LET user_permissions == get_user_permissions(user.username)
    IN  IF user_permissions \cap perms = {} THEN NOT_ALLOWED_EXCEPTION
        ELSE Ok(user)

\* Faulty variant: every required permission must be held.
check_user_by_permissions_all(perms, user) ==
    LET user_permissions == get_user_permissions(user.username)
    IN  IF "*" \in user_permissions THEN Ok(user)
        ELSE IF ~(perms \subseteq user_permissions) THEN NOT_ALLOWED_EXCEPTION
        ELSE Ok(user)

\* Faulty variant: the missing permission is logged and the user returned.
check_user_by_permissions_logs_only(perms, user) ==
    Ok(user)

check_user_by_permissions(perms, user) ==
    LET user_permissions == get_user_permissions(user.username)
    IN  IF "*" \in user_permissions THEN Ok(user)
        ELSE IF user_permissions \cap perms = {} THEN NOT_ALLOWED_EXCEPTION
        ELSE Ok(user)

\* Faulty variant: the empty list is checked like any other.
PermissionsCheckerNoShortcut(perms, token) ==
    LET user == get_current_user(token)
    IN  IF ~user.ok THEN user
        ELSE check_user_by_permissions(perms, user.val)

PermissionsChecker(perms, token) ==
    LET user == get_current_user(token)
    IN  IF ~user.ok THEN user
        ELSE IF Cardinality(perms) < 1 THEN user
        ELSE check_user_by_permissions(perms, user.val)

\* --------------------------------------------------------------- validation
\* TimeRecurrenceParser().parse followed by str(): the statement in canonical
\* form, or None where the parser raises ISO8601SyntaxError.
ParseTimeRecurrence(time_statement) ==
    CASE time_statement = "R/2021-01-01/P30D" -> Some("R/2021-01-01T00:00:00Z/P30D")
      [] time_statement = "R/2021-01-01T00:00:00Z/P30D" -> Some("R/2021-01-01T00:00:00Z/P30D")
      [] OTHER -> None

check_medication(medication_id) ==
    LET medication == CHOOSE m \in get_medication_by_id(medication_id) : TRUE
    IN  IF medication = None
        THEN HTTPException(HTTP_400_BAD_REQUEST, "Medication invalid.")
        ELSE Ok(Get(medication))

check_iso8601_time_statement(time_statement) ==
    LET parsed_statement == ParseTimeRecurrence(time_statement)
    IN  IF parsed_statement = None
        THEN HTTPException(HTTP_400_BAD_REQUEST, "Time statement invalid.")
        ELSE Ok(Get(parsed_statement))

\* ----------------------------------------------------------------- workers
Idle == [pc |-> "idle"]
NoRequest ==
    [worker |-> 0, req |-> Idle, status |-> 0, detail |-> "", body |-> None]

\* Worker w is free and the client is not holding an unread answer.
Accepts(w) == requests[w].pc = "idle" /\ last = NoRequest

\* The handler of worker w returns: the worker is free again and the client
\* receives the answer together with the request it answers.
Respond(w, req, status_code, detail, body) ==
    /\ requests' = [requests EXCEPT ![w] = Idle]
    /\ last' = IF recording
               THEN [worker |-> w, req |-> req, status |-> status_code,
                     detail |-> detail, body |-> body]
               ELSE last

Raise(w, req, exc) == Respond(w, req, exc.status, exc.detail, None)

Continue(w, req) ==
    /\ requests' = [requests EXCEPT ![w] = req]
    /\ UNCHANGED last

\* ------------------------------------------------------------------ Create
\* create_user_repeat_prescription up to the first insert: the guard and the
\* precondition checks, all of them reads of reference tables.
\* Faulty variant: the medication is checked before the pharmacy assignment.
CreateChecksMedicationFirst(token, username, medication_id, time_statement, pharmacy_assignment) ==
    LET requesting_user == PermissionsChecker({"prescription.create"}, token)
        user == CHOOSE u \in get_user_by_username(username) : TRUE
        medication == check_medication(medication_id)
        recurrance_string == check_iso8601_time_statement(time_statement)
    IN  IF ~requesting_user.ok THEN requesting_user
        ELSE IF user = None
        THEN HTTPException(HTTP_400_BAD_REQUEST, "User not found.")
        ELSE IF get_medical_practice(requesting_user.val.institution_id) = {None}
        THEN HTTPException(HTTP_400_BAD_REQUEST, "Institution invalid.")
        ELSE IF ~medication.ok THEN medication
        ELSE IF pharmacy_assignment = None
        THEN HTTPException(HTTP_400_BAD_REQUEST, "Pharmacy assignment not found.")
        ELSE IF get_medical_practice(Get(user).institution_id) = {None}
        THEN HTTPException(HTTP_400_BAD_REQUEST,
                           "User does not belong to medical practice.")
        ELSE IF ~recurrance_string.ok THEN recurrance_string
        ELSE Ok([medication |-> medication.val,
                 time_statement |-> recurrance_string.val,
                 institution_id |-> Get(pharmacy_assignment).institution_id,
                 created_by_institution_id |->
                     Get(requesting_user.val.institution_id),
                 username |-> Get(user).username])

CreateChecks(token, username, medication_id, time_statement, pharmacy_assignment) ==
    LET requesting_user == PermissionsChecker({"prescription.create"}, token)
        user == CHOOSE u \in get_user_by_username(username) : TRUE
        medication == check_medication(medication_id)
        recurrance_string == check_iso8601_time_statement(time_statement)
    IN  IF ~requesting_user.ok THEN requesting_user
        ELSE IF user = None
        THEN HTTPException(HTTP_400_BAD_REQUEST, "User not found.")
        ELSE IF get_medical_practice(requesting_user.val.institution_id) = {None}
        THEN HTTPException(HTTP_400_BAD_REQUEST, "Institution invalid.")
        ELSE IF pharmacy_assignment = None
        THEN HTTPException(HTTP_400_BAD_REQUEST, "Pharmacy assignment not found.")
        ELSE IF get_medical_practice(Get(user).institution_id) = {None}
        THEN HTTPException(HTTP_400_BAD_REQUEST,
                           "User does not belong to medical practice.")
        ELSE IF ~medication.ok THEN medication
        ELSE IF ~recurrance_string.ok THEN recurrance_string
        ELSE Ok([medication |-> medication.val,
                 time_statement |-> recurrance_string.val,
                 institution_id |-> Get(pharmacy_assignment).institution_id,
                 created_by_institution_id |->
                     Get(requesting_user.val.institution_id),
                 username |-> Get(user).username])

\* The model hands out at most MaxPrescriptions ids: a Create that would need
\* one more is not sent.
IdsLeft ==
    created + Cardinality({v \in Workers : requests[v].pc = "create_prescription"})
        < MaxPrescriptions

CreateRequest(w, token, username, medication_id, time_statement) ==
    /\ Accepts(w)
    /\ LET req == [op |-> "create", token |-> token, username |-> username,
                   medication_id |-> medication_id,
                   time_statement |-> time_statement]
       IN  \E pharmacy_assignment \in get_users_pharmacy_assignment(username) :
            LET checked == CreateChecks(token, username, medication_id,
                                        time_statement, pharmacy_assignment)
            IN  IF checked.ok
                THEN /\ IdsLeft
                     /\ Continue(w, [pc |-> "create_prescription",
                                     validated |-> checked.val] @@ req)
                ELSE Raise(w, req, checked)
    /\ UNCHANGED <<repeat_prescriptions, blood_requests, edges, now, created>>

\* Faulty variant: the two institution arguments are passed the other way round.
create_prescription_swapped(prescription_id, v) ==
    repeat_prescriptions' = repeat_prescriptions \cup
        { [prescription_id |-> prescription_id,
           medication_id |-> v.medication.medication_id,
           time_statement |-> v.time_statement,
           institution_id |-> v.created_by_institution_id,
           created_by_institution_id |-> v.institution_id,
           username |-> v.username,
           approved_at |-> None,
           issued_at |-> None,
           issued_by |-> None,
           short_code |-> SeededShortCode] }

\* Faulty variant: every prescription gets a short code of its own.
create_prescription_own_code(prescription_id, v) ==
    repeat_prescriptions' = repeat_prescriptions \cup
        { [prescription_id |-> prescription_id,
           medication_id |-> v.medication.medication_id,
           time_statement |-> v.time_statement,
           institution_id |-> v.institution_id,
           created_by_institution_id |-> v.created_by_institution_id,
           username |-> v.username,
           approved_at |-> None,
           issued_at |-> None,
           issued_by |-> None,
           short_code |-> SeededShortCode + prescription_id] }

\* create_prescription: one INSERT under a fresh uuid4; seed(1) before
\* randint makes the short code the same number at every call.
create_prescription(prescription_id, v) ==
    repeat_prescriptions' = repeat_prescriptions \cup
        { [prescription_id |-> prescription_id,
           medication_id |-> v.medication.medication_id,
           time_statement |-> v.time_statement,
           institution_id |-> v.institution_id,
           created_by_institution_id |-> v.created_by_institution_id,
           username |-> v.username,
           approved_at |-> None,
           issued_at |-> None,
           issued_by |-> None,
           short_code |-> SeededShortCode] }

CreatePrescription(w) ==
    LET req == requests[w]
        prescription_id == created + 1
    IN  /\ req.pc = "create_prescription"
        /\ create_prescription(prescription_id, req.validated)
        /\ created' = prescription_id
        /\ IF req.validated.medication.bloodwork_requirement # None
           THEN Continue(w, [pc |-> "create_bloodwork_request",
                             prescription_id |-> prescription_id] @@ req)
           ELSE Respond(w, req, HTTP_201_CREATED, "",
                        Some([prescription_id |-> prescription_id,
                              bloodwork_request_id |-> None]))
        /\ UNCHANGED <<blood_requests, edges, now>>

\* create_bloodwork_request: one INSERT under a fresh uuid4.
create_bloodwork_request(request_id, prescription_id, practice_id, request_type) ==
    blood_requests' = blood_requests \cup
        { [request_id |-> request_id,
           request_type |-> request_type,
           prescription_id |-> prescription_id,
           practice_id |-> practice_id,
           completed_at |-> None] }

CreateBloodworkRequest(w) ==
    LET req == requests[w]
        request_id == req.prescription_id
    IN  /\ req.pc = "create_bloodwork_request"
        /\ create_bloodwork_request(
               request_id, req.prescription_id,
               req.validated.created_by_institution_id,
               Get(req.validated.medication.bloodwork_requirement))
        /\ Respond(w, req, HTTP_201_CREATED, "",
                   Some([prescription_id |-> req.prescription_id,
                         bloodwork_request_id |-> Some(request_id)]))
        /\ UNCHANGED <<repeat_prescriptions, edges, now, created>>

\* ------------------------------------------------------ path dependencies
UUIDPathChecker(id) ==
    IF id = MalformedId
    THEN HTTPException(HTTP_422_UNPROCESSABLE_ENTITY, "Malformed UUID detected.")
    ELSE Ok(id)

\* _get_prescription: the row read when the dependency is resolved.
GetPrescriptionDep(prescription_id) ==
    { IF row = None
      THEN HTTPException(HTTP_404_NOT_FOUND, "Prescription not found.")
      ELSE Ok(Get(row)) : row \in get_prescription(prescription_id) }

\* The dependencies of a route are resolved in order; the first that raises
\* answers the request.
FirstFailure(outcomes) ==
    IF \E i \in 1..Len(outcomes) : ~outcomes[i].ok
    THEN outcomes[CHOOSE i \in 1..Len(outcomes) :
                    /\ ~outcomes[i].ok
                    /\ \A j \in 1..(i - 1) : outcomes[j].ok]
    ELSE Ok(TRUE)

\* ------------------------------------------------------------------ Modify
ModifyChecks(changes) ==
    LET medication == IF changes.medication_id # None
                      THEN check_medication(Get(changes.medication_id))
                      ELSE Ok(TRUE)
        statement == IF changes.time_statement # None
                     THEN check_iso8601_time_statement(Get(changes.time_statement))
                     ELSE Ok(TRUE)
    IN  FirstFailure(<<medication, statement>>)

\* prescription.copy(update=prescription_changes.dict(exclude_unset=True))
CopyUpdate(prescription, changes) ==
    [prescription EXCEPT
        !.medication_id = IF changes.medication_id # None
                          THEN Get(changes.medication_id) ELSE @,
        !.time_statement = IF changes.time_statement # None
                           THEN Get(changes.time_statement) ELSE @]

ModifyRequest(w, token, prescription_id, changes) ==
    /\ Accepts(w)
    /\ \E prescription \in GetPrescriptionDep(prescription_id) :
        LET req == [op |-> "modify", token |-> token,
                    prescription_id |-> prescription_id, changes |-> changes]
            deps == FirstFailure(<<
                        PermissionsChecker({"prescription.modify"}, token),
                        UUIDPathChecker(prescription_id),
                        prescription >>)
            checked == IF deps.ok THEN ModifyChecks(changes) ELSE deps
        IN  IF checked.ok
            THEN Continue(w, [pc |-> "update_prescription",
                              updated_prescription |->
                                  CopyUpdate(prescription.val, changes)] @@ req)
            ELSE Raise(w, req, checked)
    /\ UNCHANGED <<repeat_prescriptions, blood_requests, edges, now, created>>

\* Faulty variant: the UPDATE also clears the approval.
update_prescription_clears_approval(prescription) ==
    repeat_prescriptions' =
        { IF rp.prescription_id = prescription.prescription_id
          THEN [rp EXCEPT !.time_statement = prescription.time_statement,
                          !.medication_id = prescription.medication_id,
                          !.approved_at = None]
          ELSE rp : rp \in repeat_prescriptions }

update_prescription(prescription) ==
    repeat_prescriptions' =
        { IF rp.prescription_id = prescription.prescription_id
          THEN [rp EXCEPT !.time_statement = prescription.time_statement,
                          !.medication_id = prescription.medication_id]
          ELSE rp : rp \in repeat_prescriptions }

ModifyUpdate(w) ==
    LET req == requests[w]
    IN  /\ req.pc = "update_prescription"
        /\ update_prescription(req.updated_prescription)
        /\ Respond(w, req, HTTP_200_OK, "",
                   Some([prescription_id |-> req.updated_prescription.prescription_id]))
        /\ UNCHANGED <<blood_requests, edges, now, created>>

\* ----------------------------------------------------------------- Approve
\* Faulty variant: the already-approved check is missing.
ApprovedCheckMissing(prescription) == Ok(TRUE)

ApprovedCheck(prescription) ==
    IF prescription.approved_at # None
    THEN HTTPException(HTTP_400_BAD_REQUEST, "Prescription already approved.")
    ELSE Ok(TRUE)

ApproveRequest(w, token, prescription_id) ==
    /\ Accepts(w)
    /\ \E prescription \in GetPrescriptionDep(prescription_id) :
        LET req == [op |-> "approve", token |-> token,
                    prescription_id |-> prescription_id]
            deps == FirstFailure(<<
                        UUIDPathChecker(prescription_id),
                        PermissionsChecker({"prescription.approve"}, token),
                        prescription >>)
            checked == IF deps.ok THEN ApprovedCheck(prescription.val) ELSE deps
        IN  IF checked.ok
            THEN Continue(w, [pc |-> "get_bloodwork_request"] @@ req)
            ELSE Raise(w, req, checked)
    /\ UNCHANGED <<repeat_prescriptions, blood_requests, edges, now, created>>

\* rp FULL JOIN br ... WHERE rp.prescription_id = %s, then fetchone().
get_bloodwork_request_for_prescription(prescription_id) ==
    FetchOne(
        { [prescription_id |-> rp.prescription_id,
           request_id |-> Some(br.request_id),
           completed_at |-> br.completed_at] :
            <<rp, br>> \in
                { x \in repeat_prescriptions \X blood_requests :
                    /\ x[1].prescription_id = prescription_id
                    /\ x[2].prescription_id = prescription_id } }
        \cup
        { [prescription_id |-> rp.prescription_id,
           request_id |-> None,
           completed_at |-> None] :
            rp \in { x \in repeat_prescriptions :
                       /\ x.prescription_id = prescription_id
                       /\ ~\E br \in blood_requests :
                             br.prescription_id = prescription_id } })

\* Faulty variant: a linked request blocks approval whether completed or not.
BloodworkPendingIgnoresCompletion(details) == details.request_id # None

\* bloodwork is mandated via a linked request, and it is incomplete
BloodworkPending(details) ==
    details.request_id # None /\ details.completed_at = None

ApproveBloodworkGate(w) ==
    LET req == requests[w]
    IN  /\ req.pc = "get_bloodwork_request"
        /\ \E details \in
               get_bloodwork_request_for_prescription(req.prescription_id) :
             IF details = None
             THEN \* subscripting None raises TypeError
                  Raise(w, req, INTERNAL_SERVER_ERROR)
             ELSE IF BloodworkPending(Get(details))
             THEN Raise(w, req, HTTPException(HTTP_400_BAD_REQUEST,
                                              "Bloodwork incomplete."))
             ELSE Continue(w, [req EXCEPT !.pc = "mark_prescription_approved"])
        /\ UNCHANGED <<repeat_prescriptions, blood_requests, edges, now, created>>

\* Faulty variant: approving resets the issue fields.
mark_prescription_approved_resets_issue(prescription_id) ==
    repeat_prescriptions' =
        { IF rp.prescription_id = prescription_id
          THEN [rp EXCEPT !.approved_at = Some(now), !.issued_at = None,
                          !.issued_by = None]
          ELSE rp : rp \in repeat_prescriptions }

mark_prescription_approved(prescription_id) ==
    repeat_prescriptions' =
        { IF rp.prescription_id = prescription_id
          THEN [rp EXCEPT !.approved_at = Some(now)]
          ELSE rp : rp \in repeat_prescriptions }

\* Faulty variant: approved_at is looked at again before it is written.
ApproveMarkRechecks(w) ==
    LET req == requests[w]
    IN  /\ req.pc = "mark_prescription_approved"
        /\ IF \E rp \in repeat_prescriptions :
                rp.prescription_id = req.prescription_id /\ rp.approved_at # None
           THEN /\ Raise(w, req, HTTPException(HTTP_400_BAD_REQUEST,
                                               "Prescription already approved."))
                /\ UNCHANGED repeat_prescriptions
           ELSE /\ mark_prescription_approved(req.prescription_id)
                /\ Respond(w, req, HTTP_204_NO_CONTENT, "", None)
        /\ UNCHANGED <<blood_requests, edges, now, created>>

ApproveMark(w) ==
    LET req == requests[w]
    IN  /\ req.pc = "mark_prescription_approved"
        /\ mark_prescription_approved(req.prescription_id)
        /\ Respond(w, req, HTTP_204_NO_CONTENT, "", None)
        /\ UNCHANGED <<blood_requests, edges, now, created>>

\* ------------------------------------------------------------------- Issue
\* Faulty variant: the approval check is missing.
IssueChecksNoApproval(prescription, issuing_user) ==
    IF Some(prescription.institution_id) # issuing_user.institution_id
    THEN HTTPException(HTTP_403_FORBIDDEN, "Wrong institution.")
    ELSE IF prescription.issued_at # None \/ prescription.issued_by # None
    THEN HTTPException(HTTP_400_BAD_REQUEST, "Prescription already issued.")
    ELSE Ok(TRUE)

\* Faulty variant: the issue state is checked before the institution.
IssueChecksStateFirst(prescription, issuing_user) ==
    IF prescription.issued_at # None \/ prescription.issued_by # None
    THEN HTTPException(HTTP_400_BAD_REQUEST, "Prescription already issued.")
    ELSE IF prescription.approved_at = None
    THEN HTTPException(HTTP_400_BAD_REQUEST,
                       "Prescription not approved for issue.")
    ELSE IF Some(prescription.institution_id) # issuing_user.institution_id
    THEN HTTPException(HTTP_403_FORBIDDEN, "Wrong institution.")
    ELSE Ok(TRUE)

IssueChecks(prescription, issuing_user) ==
    IF Some(prescription.institution_id) # issuing_user.institution_id
    THEN HTTPException(HTTP_403_FORBIDDEN, "Wrong institution.")
    ELSE IF prescription.issued_at # None \/ prescription.issued_by # None
    THEN HTTPException(HTTP_400_BAD_REQUEST, "Prescription already issued.")
    ELSE IF prescription.approved_at = None
    THEN HTTPException(HTTP_400_BAD_REQUEST,
                       "Prescription not approved for issue.")
    ELSE Ok(TRUE)

IssueRequest(w, token, prescription_id) ==
    /\ Accepts(w)
    /\ \E prescription \in GetPrescriptionDep(prescription_id) :
        LET req == [op |-> "issue", token |-> token,
                    prescription_id |-> prescription_id]
            issuing_user == PermissionsChecker({"prescription.issue"}, token)
            deps == FirstFailure(<<
                        UUIDPathChecker(prescription_id),
                        prescription,
                        issuing_user >>)
            checked == IF deps.ok
                       THEN IssueChecks(prescription.val, issuing_user.val)
                       ELSE deps
        IN  IF checked.ok
            THEN Continue(w, [pc |-> "mark_prescription_issued",
                              issuing_user |-> issuing_user.val.username] @@ req)
            ELSE Raise(w, req, checked)
    /\ UNCHANGED <<repeat_prescriptions, blood_requests, edges, now, created>>

\* Faulty variant: the UPDATE sets issued_at only.
mark_prescription_issued_at_only(prescription_id, issuing_user) ==
    repeat_prescriptions' =
        { IF rp.prescription_id = prescription_id
          THEN [rp EXCEPT !.issued_at = Some(now)]
          ELSE rp : rp \in repeat_prescriptions }

mark_prescription_issued(prescription_id, issuing_user) ==
    repeat_prescriptions' =
        { IF rp.prescription_id = prescription_id
          THEN [rp EXCEPT !.issued_at = Some(now),
                          !.issued_by = Some(issuing_user)]
          ELSE rp : rp \in repeat_prescriptions }

IssueMark(w) ==
    LET req == requests[w]
    IN  /\ req.pc = "mark_prescription_issued"
        /\ mark_prescription_issued(req.prescription_id,
                                    req.issuing_user)
        /\ Respond(w, req, HTTP_204_NO_CONTENT, "", None)
        /\ UNCHANGED <<blood_requests, edges, now, created>>

\* ------------------------------------------------------------------ Delete
DeleteRequest(w, token, prescription_id) ==
    /\ Accepts(w)
    /\ \E prescription \in GetPrescriptionDep(prescription_id) :
        LET req == [op |-> "delete", token |-> token,
                    prescription_id |-> prescription_id]
            deps == FirstFailure(<<
                        PermissionsChecker({"prescription.delete"}, token),
                        UUIDPathChecker(prescription_id),
                        prescription >>)
        IN  IF deps.ok
            THEN Continue(w, [pc |-> "delete_prescription"] @@ req)
            ELSE Raise(w, req, deps)
    /\ UNCHANGED <<repeat_prescriptions, blood_requests, edges, now, created>>

\* delete_prescription: the DELETE statement; TRUE when it ran, FALSE when the
\* store raised.  Whether the store removes the blood_requests row of the
\* prescription with it depends on the schema, which the statement leaves open.
delete_prescription(prescription_id, deleted) ==
    \/ /\ deleted
       /\ repeat_prescriptions' =
            { rp \in repeat_prescriptions : rp.prescription_id # prescription_id }
       /\ \/ UNCHANGED blood_requests
          \/ blood_requests' =
               { br \in blood_requests : br.prescription_id # prescription_id }
    \/ /\ ~deleted
       /\ UNCHANGED <<repeat_prescriptions, blood_requests>>

\* Faulty variant: the value delete_prescription returns is not looked at.
DeleteExecuteIgnoresResult(w) ==
    LET req == requests[w]
    IN  /\ req.pc = "delete_prescription"
        /\ \E deleted \in BOOLEAN :
            /\ delete_prescription(req.prescription_id, deleted)
            /\ Respond(w, req, HTTP_204_NO_CONTENT, "", None)
        /\ UNCHANGED <<edges, now, created>>

DeleteExecute(w) ==
    LET req == requests[w]
    IN  /\ req.pc = "delete_prescription"
        /\ \E deleted \in BOOLEAN :
            /\ delete_prescription(req.prescription_id, deleted)
            /\ IF deleted
               THEN Respond(w, req, HTTP_204_NO_CONTENT, "", None)
               ELSE Raise(w, req,
                          HTTPException(HTTP_500_INTERNAL_SERVER_ERROR,
                                        "Lost connection to the database"))
        /\ UNCHANGED <<edges, now, created>>

\* ------------------------------------------------------ bloodwork completion
REQUEST_NOT_FOUND_EXCEPTION ==
    HTTPException(HTTP_404_NOT_FOUND, "Bloodwork request not found.")

get_request_by_id(request_id) ==
    FetchOne({br \in blood_requests : br.request_id = request_id})

\* Faulty variant: the institution of the identity is not compared.
CompleteChecksAnyInstitution(user, request) ==
    IF request = None THEN REQUEST_NOT_FOUND_EXCEPTION
    ELSE IF Get(request).completed_at # None
    THEN HTTPException(HTTP_400_BAD_REQUEST, "Bloodwork request already completed.")
    ELSE Ok(TRUE)

CompleteChecks(user, request) ==
    IF request = None THEN REQUEST_NOT_FOUND_EXCEPTION
    ELSE IF user.institution_id # Some(Get(request).practice_id)
    THEN REQUEST_NOT_FOUND_EXCEPTION
    ELSE IF Get(request).completed_at # None
    THEN HTTPException(HTTP_400_BAD_REQUEST, "Bloodwork request already completed.")
    ELSE Ok(TRUE)

CompleteRequest(w, token, request_id) ==
    /\ Accepts(w)
    /\ \E request \in get_request_by_id(request_id) :
        LET req == [op |-> "complete", token |-> token, request_id |-> request_id]
            user == PermissionsChecker({"bloodwork-request.complete"}, token)
            deps == FirstFailure(<<UUIDPathChecker(request_id), user>>)
            checked == IF deps.ok THEN CompleteChecks(user.val, request) ELSE deps
        IN  IF checked.ok
            THEN Continue(w, [pc |-> "mark_bloodwork_request_complete"] @@ req)
            ELSE Raise(w, req, checked)
    /\ UNCHANGED <<repeat_prescriptions, blood_requests, edges, now, created>>

\* Faulty variant: the UPDATE matches no row.
mark_bloodwork_request_complete_no_row(request_id) ==
    UNCHANGED blood_requests

mark_bloodwork_request_complete(request_id) ==
    blood_requests' =
        { IF br.request_id = request_id
          THEN [br EXCEPT !.completed_at = Some(now)]
          ELSE br : br \in blood_requests }

CompleteMark(w) ==
    LET req == requests[w]
    IN  /\ req.pc = "mark_bloodwork_request_complete"
        /\ mark_bloodwork_request_complete(req.request_id)
        /\ Respond(w, req, HTTP_204_NO_CONTENT, "", None)
        /\ UNCHANGED <<repeat_prescriptions, edges, now, created>>

\* ----------------------------------------------------------- the guard alone
\* What the role-administration handlers and a read-only guarded route leave
\* alone.
workflow == <<repeat_prescriptions, blood_requests, now, created, recording,
              script, issued_tokens, accounts>>

\* A route that only reads, behind PermissionsChecker(perms).
AuthorizeRequest(w, token, perms) ==
    /\ Accepts(w)
    /\ LET req == [op |-> "authorize", token |-> token, perms |-> perms]
           user == PermissionsChecker(perms, token)
       IN  IF user.ok
           THEN Respond(w, req, HTTP_200_OK, "", None)
           ELSE Raise(w, req, user)
    /\ UNCHANGED <<workflow, role_by_user, permissions_by_role>>

\* ------------------------------------------------------ role administration
\* The ids of a request's list, which may hold an id more than once.
Ids(list) == {list[i] : i \in DOMAIN list}

check_roles_exist(role_ids) ==
    IF \E r \in Ids(role_ids) : r \notin {x.role_id : x \in roles}
    THEN HTTPException(HTTP_400_BAD_REQUEST, "One or more roles not found.")
    ELSE Ok(role_ids)

\* assign_roles up to its first statement.
AssignRolesRequest(w, token, username, role_ids) ==
    /\ Accepts(w)
    /\ LET req == [op |-> "assign_roles", token |-> token,
                   username |-> username, roles |-> role_ids]
           deps == FirstFailure(<<get_current_user(token),
                                  check_roles_exist(role_ids)>>)
       IN  IF deps.ok
           THEN Continue(w, [pc |-> "remove_existing_roles_for_user",
                             todo |-> role_ids] @@ req)
           ELSE Raise(w, req, deps)
    /\ UNCHANGED <<workflow, role_by_user, permissions_by_role>>

\* Faulty variant: the earlier assignments are kept.
remove_existing_roles_skipped(username) ==
    role_by_user' = role_by_user

remove_existing_roles_for_user(username) ==
    role_by_user' = {rbu \in role_by_user : rbu.username # username}

AssignRolesRemove(w) ==
    LET req == requests[w]
    IN  /\ req.pc = "remove_existing_roles_for_user"
        /\ remove_existing_roles_for_user(req.username)
        /\ IF req.todo = <<>>
           THEN Respond(w, req, HTTP_204_NO_CONTENT, "", None)
           ELSE Continue(w, [req EXCEPT !.pc = "add_role_to_user"])
        /\ UNCHANGED <<workflow, permissions_by_role>>

add_role_to_user(username, role_id) ==
    role_by_user' =
        role_by_user \cup {[username |-> username, role_id |-> role_id]}

\* One pass of the loop over the roles of the request.
AssignRolesAdd(w) ==
    LET req == requests[w]
    IN  /\ req.pc = "add_role_to_user"
        /\ req.op = "assign_roles"
        /\ add_role_to_user(req.username, Head(req.todo))
        /\ IF Tail(req.todo) = <<>>
           THEN Respond(w, req, HTTP_204_NO_CONTENT, "", None)
           ELSE Continue(w, [req EXCEPT !.todo = Tail(@)])
        /\ UNCHANGED <<workflow, permissions_by_role>>

check_role_exists(role_id) ==
    IF role_id \notin {x.role_id : x \in roles}
    THEN HTTPException(HTTP_400_BAD_REQUEST, "Role not found.")
    ELSE Ok(role_id)

\* Faulty variant: the request is declined only when no id of it is valid.
check_permissions_exists_some_valid(permission_ids) ==
    IF /\ permission_ids # <<>>
       /\ \A p \in Ids(permission_ids) :
            p \notin {x.permission_id : x \in permissions}
    THEN HTTPException(HTTP_400_BAD_REQUEST, "One or more permissions not valid.")
    ELSE Ok(permission_ids)

check_permissions_exists(permission_ids) ==
    IF \E p \in Ids(permission_ids) :
            p \notin {x.permission_id : x \in permissions}
    THEN HTTPException(HTTP_400_BAD_REQUEST, "One or more permissions not valid.")
    ELSE Ok(permission_ids)

\* add_permissions_to_role up to its first statement.
AddPermissionsRequest(w, token, role_id, permission_ids) ==
    /\ Accepts(w)
    /\ LET req == [op |-> "add_permissions_to_role", token |-> token,
                   role_id |-> role_id, permissions |-> permission_ids]
           deps == FirstFailure(<<get_current_user(token),
                                  check_role_exists(role_id),
                                  check_permissions_exists(permission_ids)>>)
       IN  IF deps.ok
           THEN Continue(w, [pc |-> "remove_existing_permissions_for_role",
                             todo |-> permission_ids] @@ req)
           ELSE Raise(w, req, deps)
    /\ UNCHANGED <<workflow, role_by_user, permissions_by_role>>

\* Faulty variant: the DELETE has no WHERE clause.
remove_existing_permissions_every_role(role_id) ==
    permissions_by_role' = {}

\* Faulty variant: the earlier permissions are kept.
remove_existing_permissions_skipped(role_id) ==
    permissions_by_role' = permissions_by_role

remove_existing_permissions_for_role(role_id) ==
    permissions_by_role' = {pbr \in permissions_by_role : pbr.role_id # role_id}

AddPermissionsRemove(w) ==
    LET req == requests[w]
    IN  /\ req.pc = "remove_existing_permissions_for_role"
        /\ remove_existing_permissions_for_role(req.role_id)
        /\ IF req.todo = <<>>
           THEN Respond(w, req, HTTP_204_NO_CONTENT, "", None)
           ELSE Continue(w, [req EXCEPT !.pc = "add_permission_to_role"])
        /\ UNCHANGED <<workflow, role_by_user>>

add_permission_to_role(role_id, permission_id) ==
    permissions_by_role' =
        permissions_by_role
            \cup {[role_id |-> role_id, permission_id |-> permission_id]}

\* One pass of the loop over the permissions of the request.
AddPermissionsAdd(w) ==
    LET req == requests[w]
    IN  /\ req.pc = "add_permission_to_role"
        /\ add_permission_to_role(req.role_id, Head(req.todo))
        /\ IF Tail(req.todo) = <<>>
           THEN Respond(w, req, HTTP_204_NO_CONTENT, "", None)
           ELSE Continue(w, [req EXCEPT !.todo = Tail(@)])
        /\ UNCHANGED <<workflow, role_by_user>>

\* ------------------------------------------------ institutions registered
\* str(uuid.uuid4()): an id that no stored row carries.
InstitutionIdPool == <<"i1", "i2", "i3", "i4">>
InstitutionIds == {InstitutionIdPool[n] : n \in 1..MaxInstitutions}
FreshInstitutionIds ==
    InstitutionIds \ ({i.institution_id : i \in added_institutions}
                      \cup {pu.institution_id : pu \in pending_users})

HEAD_PHARMACIST == "HEAD_PHARMACIST"
MEDICAL_PRACTICE_ADMINISTRATOR == "MEDICAL_PRACTICE_ADMINISTRATOR"

\* INSERT INTO institutions: the insert is refused with UniqueViolation when
\* a row of that name is stored (the names of the rows of the reference
\* table are taken to differ from every name a request carries).
InsertInstitution(institution_id, institution_type, name) ==
    IF \E i \in added_institutions : i.name = name
    THEN [ok |-> FALSE, rows |-> added_institutions]
    ELSE [ok |-> TRUE,
          rows |-> added_institutions
                    \cup {[institution_id |-> institution_id,
                           institution_type |-> institution_type,
                           name |-> name]}]

create_pharmacy(pharmacy_id, name) ==
    InsertInstitution(pharmacy_id, PHARMACY, name)

create_medical_practice(practice_id, name) ==
    InsertInstitution(practice_id, MEDICAL_PRACTICE, name)

\* Faulty variant: nothing is deleted.
delete_pharmacy_skipped(pharmacy_id) == added_institutions

\* DELETE FROM institutions WHERE institution_id = %s AND institution_type = %s
delete_pharmacy(pharmacy_id) ==
    {i \in added_institutions :
        ~(i.institution_id = pharmacy_id /\ i.institution_type = PHARMACY)}

\* INSERT INTO pending_users: refused with UniqueViolation when the username
\* is already pending.
create_pending_user(username, institution_id) ==
    IF \E pu \in pending_users : pu.username = username
    THEN [ok |-> FALSE, rows |-> pending_users]
    ELSE [ok |-> TRUE,
          rows |-> pending_users
                    \cup {[username |-> username, institution_id |-> institution_id]}]

\* INSERT INTO registration_tokens under a new uuid4, which the (username,
\* type) pair stands for here: a pending username has at most one token.
create_registration_token(username, token_type) ==
    registration_tokens
        \cup {[token_id |-> <<username, token_type>>, token_type |-> token_type,
               username |-> username]}

\* POST /pharmacies: the guard, then create_pharmacy.
CreatePharmacyRequest(w, token, name, username) ==
    /\ Accepts(w)
    /\ LET req == [op |-> "create_pharmacy", token |-> token, name |-> name,
                   username |-> username]
           guard == PermissionsChecker({"pharmacies.create"}, token)
       IN  IF ~guard.ok
           THEN Raise(w, req, guard) /\ UNCHANGED added_institutions
           ELSE \E institution_id \in FreshInstitutionIds :
                 LET inserted == create_pharmacy(institution_id, name)
                 IN  /\ added_institutions' = inserted.rows
                     /\ IF inserted.ok
                        THEN Continue(w, [pc |-> "create_pending_user",
                                          institution_id |-> institution_id] @@ req)
                        ELSE Raise(w, req,
                                   HTTPException(HTTP_400_BAD_REQUEST,
                                                 "Pharmacy already exists with that name"))
    /\ UNCHANGED <<repeat_prescriptions, blood_requests, role_by_user,
                   permissions_by_role, now, created, recording, script,
                   issued_tokens, pending_users, registration_tokens,
                   added_users, added_assignments>>

\* POST /medical-practices: the guard, then create_medical_practice.
CreatePracticeRequest(w, token, name, username) ==
    /\ Accepts(w)
    /\ LET req == [op |-> "create_practice", token |-> token, name |-> name,
                   username |-> username]
           guard == PermissionsChecker({"practices.create"}, token)
       IN  IF ~guard.ok
           THEN Raise(w, req, guard) /\ UNCHANGED added_institutions
           ELSE \E institution_id \in FreshInstitutionIds :
                 LET inserted == create_medical_practice(institution_id, name)
                 IN  /\ added_institutions' = inserted.rows
                     /\ IF inserted.ok
                        THEN Continue(w, [pc |-> "create_pending_user",
                                          institution_id |-> institution_id] @@ req)
                        ELSE Raise(w, req,
                                   HTTPException(HTTP_400_BAD_REQUEST,
                                                 "Practice already exists"))
    /\ UNCHANGED <<repeat_prescriptions, blood_requests, role_by_user,
                   permissions_by_role, now, created, recording, script,
                   issued_tokens, pending_users, registration_tokens,
                   added_users, added_assignments>>

\* create_pending_user for the master user.  On a conflict the pharmacy
\* handler goes on to delete the pharmacy; _handle_create_pending_user, which
\* the practice handler calls, raises at once.
CreatePendingUser(w) ==
    /\ requests[w].pc = "create_pending_user"
    /\ LET req == requests[w]
           inserted == create_pending_user(req.username, req.institution_id)
       IN  /\ pending_users' = inserted.rows
           /\ IF inserted.ok
              THEN Continue(w, [req EXCEPT !.pc = "create_registration_token"])
              ELSE IF req.op = "create_pharmacy"
              THEN Continue(w, [req EXCEPT !.pc = "delete_pharmacy"])
              ELSE Raise(w, req,
                         HTTPException(HTTP_400_BAD_REQUEST, "User already exists"))
    /\ UNCHANGED <<repeat_prescriptions, blood_requests, role_by_user,
                   permissions_by_role, now, created, recording, script,
                   issued_tokens, added_institutions, registration_tokens,
                   added_users, added_assignments>>

\* except UniqueViolation: delete_pharmacy(institution_id), then raise.
DeletePharmacy(w) ==
    /\ requests[w].pc = "delete_pharmacy"
    /\ added_institutions' = delete_pharmacy(requests[w].institution_id)
    /\ Raise(w, requests[w],
             HTTPException(HTTP_400_BAD_REQUEST, "User already exists"))
    /\ UNCHANGED <<repeat_prescriptions, blood_requests, role_by_user,
                   permissions_by_role, now, created, recording, script,
                   issued_tokens, pending_users, registration_tokens,
                   added_users, added_assignments>>

\* create_registration_token, the mail (not modelled: it stores nothing)
\* and the 201 answer carrying the institution id.
CreateRegistrationToken(w) ==
    /\ requests[w].pc = "create_registration_token"
    /\ LET req == requests[w]
       IN  /\ registration_tokens' =
                create_registration_token(
                    req.username,
                    IF req.op = "create_pharmacy"
                    THEN HEAD_PHARMACIST ELSE MEDICAL_PRACTICE_ADMINISTRATOR)
           /\ Respond(w, req, HTTP_201_CREATED, "", Some(req.institution_id))
    /\ UNCHANGED <<repeat_prescriptions, blood_requests, role_by_user,
                   permissions_by_role, now, created, recording, script,
                   issued_tokens, added_institutions, pending_users,
                   added_users, added_assignments>>

\* ------------------------------------------------------------------- login
\* Column password of table users.  PWD_CONTEXT knows the bcrypt scheme only:
\* a hash is <<"bcrypt", plain>>, anything else is not a recognised encoding.
\* The password of tech2 is stored as it was typed.
bcrypt(plain) == <<"bcrypt", plain>>

stored_passwords ==
    [u \in {x.username : x \in users} |->
        IF u = "tech2" THEN <<"pw_tech2">> ELSE bcrypt("pw_" \o u)]

Passwords == {"pw_tech", "pw_tech2", "pw_ghost", "wrong"}

\* PWD_CONTEXT.verify: raises UnknownHashError for a hash of no known scheme.
PWD_CONTEXT_verify(plain_password, hashed_password) ==
    IF Len(hashed_password) = 2 /\ hashed_password[1] = "bcrypt"
    THEN [UnknownHashError |-> FALSE, pwd |-> hashed_password = bcrypt(plain_password)]
    ELSE [UnknownHashError |-> TRUE, pwd |-> FALSE]

\* Faulty variant: the UnknownHashError is not caught.
verify_password_raises(plain_password, hashed_password) ==
    LET verified == PWD_CONTEXT_verify(plain_password, hashed_password)
    IN  IF verified.UnknownHashError THEN INTERNAL_SERVER_ERROR
        ELSE Ok(verified.pwd)

verify_password(plain_password, hashed_password) ==
    LET verified == PWD_CONTEXT_verify(plain_password, hashed_password)
    IN  IF verified.UnknownHashError THEN Ok(FALSE)
        ELSE Ok(verified.pwd)

\* The value is None or the user; an exception of verify_password passes
\* through.
authenticate_user(username, password) ==
    LET user == CHOOSE u \in get_user_by_username(username) : TRUE
    IN  IF user = None THEN Ok(None)
        ELSE LET password_valid ==
                    verify_password(password, stored_passwords[username])
             IN  IF ~password_valid.ok THEN password_valid
                 ELSE IF password_valid.val THEN Ok(user)
                 ELSE Ok(None)

DefaultTokenExpiryMinutes == 180
\* timedelta(minutes=...) on a clock that counts seconds.
timedelta(minutes) == minutes * 60

create_token(username, token_expiry_minutes) ==
    LET expiry == now + timedelta(token_expiry_minutes)
    IN  <<"claims", expiry, username>>

\* What is known of a token handed out: the call that made it.
Issue(token, token_expiry_minutes) ==
    [token |-> token, token_expiry_minutes |-> token_expiry_minutes,
     issued_at |-> now]

\* POST /token.
LoginRequest(w, username, password) ==
    /\ Accepts(w)
    /\ LET req == [op |-> "login", username |-> username, password |-> password]
           user == authenticate_user(username, password)
       IN  IF ~user.ok
           THEN Raise(w, req, user) /\ UNCHANGED issued_tokens
           ELSE IF user.val = None
           THEN /\ Raise(w, req, HTTPException(HTTP_401_UNAUTHORIZED, "Unauthorized."))
                /\ UNCHANGED issued_tokens
           ELSE LET access_token ==
                        create_token(Get(user.val).username, DefaultTokenExpiryMinutes)
                IN  /\ Respond(w, req, HTTP_200_OK, "", Some(access_token))
                    /\ issued_tokens' = issued_tokens
                            \cup {Issue(access_token, DefaultTokenExpiryMinutes)}
    /\ UNCHANGED <<repeat_prescriptions, blood_requests, role_by_user,
                   permissions_by_role, now, created, recording, script,
                   accounts>>

\* create_token called with an expiry of its caller's choice.
CreateToken(username, token_expiry_minutes) ==
    /\ last = NoRequest
    /\ issued_tokens' = issued_tokens
            \cup {Issue(create_token(username, token_expiry_minutes),
                        token_expiry_minutes)}
    /\ UNCHANGED <<repeat_prescriptions, blood_requests, role_by_user,
                   permissions_by_role, now, created, requests, last, recording,
                   script, accounts>>

\* ------------------------------------------------ conversion of the pending
\* A registration token that is not a version-4 UUID.
MalformedRegistrationToken == <<"malformed">>

\* SELECT ... FROM registration_tokens WHERE token_id = %s, then fetchone().
get_active_token(token_id) ==
    FetchOne({t \in registration_tokens : t.token_id = token_id})

_check_registration_token(registration_token) ==
    LET unauthorized_exception ==
            HTTPException(HTTP_401_UNAUTHORIZED, "Registration token invalid")
        token == CHOOSE t \in get_active_token(registration_token) : TRUE
    IN  IF registration_token = MalformedRegistrationToken
        THEN unauthorized_exception
        ELSE IF token = None THEN unauthorized_exception
        ELSE Ok(Get(token))

\* pending_users JOIN institutions USING (institution_id) WHERE username = %s
get_pending_user_by_username(username) ==
    FetchOne({pu \in pending_users :
                /\ pu.username = username
                /\ \E i \in institutions \cup
                            {[institution_id |-> a.institution_id,
                              institution_type |-> a.institution_type] :
                                a \in added_institutions} :
                        i.institution_id = pu.institution_id})

\* Faulty variant: the INSERT is not refused for a username that is stored.
create_user_ignores_existing(username, password, institution_id) ==
    [ok |-> TRUE,
     rows |-> added_users
                \cup {[username |-> username, password |-> password,
                       institution_id |-> Some(institution_id)]}]

\* INSERT INTO users: refused with UniqueViolation when the username is stored.
create_user(username, password, institution_id) ==
    IF \E u \in AllUsers : u.username = username
    THEN [ok |-> FALSE, rows |-> added_users]
    ELSE [ok |-> TRUE,
          rows |-> added_users
                    \cup {[username |-> username, password |-> password,
                           institution_id |-> Some(institution_id)]}]

\* The password is hashed, the user inserted; None on UniqueViolation.
create_new_user(username, password, institution_id) ==
    create_user(username, bcrypt(password), institution_id)

\* CoreRoles by RegistrationType, for the types of the tokens handed out here.
role_assignments(token_type) ==
    IF token_type = MEDICAL_PRACTICE_ADMINISTRATOR
    THEN "c84415c1-59d1-480b-8ead-a61dbbdf2f9a"
    ELSE "490231de-b6c9-4215-9866-5c84b059e1c6"

\* DELETE FROM pending_users WHERE username = %s; the registration tokens of
\* the username go with the row ("registration token deleted on delete of
\* pending user row").
delete_pending_user(username) ==
    /\ pending_users' = {pu \in pending_users : pu.username # username}
    /\ registration_tokens' = {t \in registration_tokens : t.username # username}

\* POST /pending-users/convert: the dependency _check_registration_token.
ConvertRequest(w, registration_token, password) ==
    /\ Accepts(w)
    /\ LET req == [op |-> "convert", registration_token |-> registration_token,
                   password |-> password]
           token == _check_registration_token(registration_token)
       IN  IF token.ok
           THEN Continue(w, [pc |-> "get_pending_user_by_username",
                             username |-> token.val.username,
                             token_type |-> token.val.token_type] @@ req)
           ELSE Raise(w, req, token)
    /\ UNCHANGED <<workflow, role_by_user, permissions_by_role>>

ConvertGetPendingUser(w) ==
    LET req == requests[w]
    IN  /\ req.pc = "get_pending_user_by_username"
        /\ \E user \in get_pending_user_by_username(req.username) :
            IF user = None
            THEN Raise(w, req,
                       HTTPException(HTTP_400_BAD_REQUEST, "User does not exist"))
            ELSE Continue(w, [pc |-> "create_new_user",
                              institution_id |-> Get(user).institution_id]
                             @@ req)
        /\ UNCHANGED <<workflow, role_by_user, permissions_by_role>>

ConvertCreateUser(w) ==
    LET req == requests[w]
        created_user == create_new_user(req.username, req.password, req.institution_id)
    IN  /\ req.pc = "create_new_user"
        /\ added_users' = created_user.rows
        /\ IF created_user.ok
           THEN Continue(w, [req EXCEPT !.pc = "add_role_to_user"])
           ELSE Raise(w, req,
                      HTTPException(HTTP_400_BAD_REQUEST, "Error creating user"))
        /\ UNCHANGED <<repeat_prescriptions, blood_requests, role_by_user,
                       permissions_by_role, now, created, recording, script,
                       issued_tokens, added_institutions, pending_users,
                       registration_tokens, added_assignments>>

ConvertAddRole(w) ==
    LET req == requests[w]
    IN  /\ req.pc = "add_role_to_user"
        /\ req.op = "convert"
        /\ add_role_to_user(req.username, role_assignments(req.token_type))
        /\ Continue(w, [req EXCEPT !.pc = "delete_pending_user"])
        /\ UNCHANGED <<workflow, permissions_by_role>>

\* delete_pending_user, create_token and the 201 answer with the token.
ConvertDeletePending(w) ==
    LET req == requests[w]
        access_token == create_token(req.username, DefaultTokenExpiryMinutes)
    IN  /\ req.pc = "delete_pending_user"
        /\ delete_pending_user(req.username)
        /\ issued_tokens' = issued_tokens
                \cup {Issue(access_token, DefaultTokenExpiryMinutes)}
        /\ Respond(w, req, HTTP_201_CREATED, "", Some(access_token))
        /\ UNCHANGED <<repeat_prescriptions, blood_requests, role_by_user,
                       permissions_by_role, now, created, recording, script,
                       added_institutions, added_users, added_assignments>>

\* ------------------------------------------------------ preferred pharmacy
\* A path value that is not a version-4 UUID.
MalformedPharmacyId == "not-a-uuid"

\* SELECT ... FROM institutions WHERE institution_id = %s AND
\* institution_type = PHARMACY, then fetchone().
get_pharmacy(pharmacy_id) ==
    FetchOne({i \in institutions \cup
                    {[institution_id |-> a.institution_id,
                      institution_type |-> a.institution_type] :
                        a \in added_institutions} :
                /\ i.institution_id = pharmacy_id
                /\ i.institution_type = PHARMACY})

_get_pharmacy(pharmacy_id) ==
    LET pharmacy_not_found_exception ==
            HTTPException(HTTP_404_NOT_FOUND, "Pharmacy not found.")
        pharmacy == CHOOSE i \in get_pharmacy(pharmacy_id) : TRUE
    IN  IF pharmacy_id = MalformedPharmacyId THEN pharmacy_not_found_exception
        ELSE IF pharmacy = None THEN pharmacy_not_found_exception
        ELSE Ok(Get(pharmacy))

\* INSERT INTO pharmacy_assignments (username, institution_id) ... ON CONFLICT
\* (username, institution_id) DO UPDATE SET institution_id =
\* EXCLUDED.institution_id: a row is added unless this very pair is stored,
\* and then the stored row is rewritten with the value it has.
set_users_pharmacy(pharmacy_id, username) ==
    IF \E a \in AllAssignments :
            a.username = username /\ a.institution_id = pharmacy_id
    THEN added_assignments
    ELSE added_assignments
            \cup {[username |-> username, institution_id |-> pharmacy_id]}

\* PATCH /pharmacies/{pharmacy_id}/prefer: _get_pharmacy, then the guard.
PreferRequest(w, token, pharmacy_id) ==
    /\ Accepts(w)
    /\ LET req == [op |-> "prefer", token |-> token, pharmacy_id |-> pharmacy_id]
           pharmacy == _get_pharmacy(pharmacy_id)
           user == PermissionsChecker({"patient.pharmacy.own"}, token)
           deps == FirstFailure(<<pharmacy, user>>)
       IN  IF deps.ok
           THEN Continue(w, [pc |-> "set_users_pharmacy",
                             username |-> user.val.username] @@ req)
           ELSE Raise(w, req, deps)
    /\ UNCHANGED <<workflow, role_by_user, permissions_by_role>>

PreferSet(w) ==
    LET req == requests[w]
    IN  /\ req.pc = "set_users_pharmacy"
        /\ added_assignments' = set_users_pharmacy(req.pharmacy_id, req.username)
        /\ Respond(w, req, HTTP_200_OK, "", Some(req.pharmacy_id))
        /\ UNCHANGED <<repeat_prescriptions, blood_requests, role_by_user,
                       permissions_by_role, now, created, recording, script,
                       issued_tokens, added_institutions, pending_users,
                       registration_tokens, added_users>>

\* ------------------------------------------------------ lookup by short code
\* SELECT prescription_id FROM repeat_prescriptions WHERE short_code = %s,
\* then fetchone(): any one of the rows that carry the code.
get_prescription_by_code(short_code) ==
    FetchOne({[prescription_id |-> rp.prescription_id] :
                rp \in {x \in repeat_prescriptions : x.short_code = short_code}})

\* GET /prescriptions/code/{short_code}: the guard, then the id is looked up.
ShortCodeRequest(w, token, short_code) ==
    /\ Accepts(w)
    /\ LET req == [op |-> "short_code", token |-> token, short_code |-> short_code]
           guard == PermissionsChecker({"prescription.short-code"}, token)
       IN  IF ~guard.ok THEN Raise(w, req, guard)
           ELSE \E found \in get_prescription_by_code(short_code) :
                 IF found = None
                 THEN Raise(w, req, HTTPException(HTTP_404_NOT_FOUND,
                                                  "Prescription not found."))
                 ELSE Continue(w, [pc |-> "_get_prescription",
                                   prescription_id |-> Get(found).prescription_id]
                                  @@ req)
    /\ UNCHANGED <<repeat_prescriptions, blood_requests, edges, now, created>>

\* return _get_prescription(prescription_id=prescription_id)
ShortCodeGet(w) ==
    LET req == requests[w]
    IN  /\ req.pc = "_get_prescription"
        /\ \E prescription \in GetPrescriptionDep(req.prescription_id) :
            IF prescription.ok
            THEN Respond(w, req, HTTP_200_OK, "", Some(prescription.val))
            ELSE Raise(w, req, prescription)
        /\ UNCHANGED <<repeat_prescriptions, blood_requests, edges, now, created>>

\* ------------------------------------------------------------------- clock
\* Time passes.  The client reading an answer does not read the clock, so
\* the clock is only advanced between answers.
Tick ==
    /\ last = NoRequest
    /\ now < MaxTime
    /\ now' = now + 1
    /\ UNCHANGED <<repeat_prescriptions, blood_requests, edges, created,
                   requests, last>>

\* ----------------------------------------------------------- specification
\* Nothing has been registered and no preference has been set yet.
NoAccounts ==
    /\ added_institutions = {}
    /\ pending_users = {}
    /\ registration_tokens = {}
    /\ added_users = {}
    /\ added_assignments = {}

InitRoleByUser ==
    { [username |-> "gp",    role_id |-> "r_gp"],
      [username |-> "admin", role_id |-> "r_admin"],
      [username |-> "tech",  role_id |-> "r_tech"],
      [username |-> "tech2", role_id |-> "r_tech"],
      [username |-> "tech3", role_id |-> "r_tech"] }

InitPermissionsByRole ==
    { [role_id |-> "r_admin", permission_id |-> "p_all"],
      [role_id |-> "r_tech",  permission_id |-> "p_issue"] }
    \cup
    { [role_id |-> "r_gp", permission_id |-> p] :
        p \in {"p_create", "p_modify", "p_approve", "p_delete", "p_complete"} }

\* The client reads the answer.
Deliver ==
    /\ last # NoRequest
    /\ last' = NoRequest
    /\ UNCHANGED <<repeat_prescriptions, blood_requests, edges, now, created,
                   requests>>

\* Concurrent requests of the staff of one practice and one pharmacy.
CreateRequests(w) ==
    \E medication_id \in {"med_plain", "med_blood"} :
        CreateRequest(w, Some("gp"), "pat", medication_id, "R/2021-01-01/P30D")

ModifyRequests(w) ==
    \E prescription_id \in PrescriptionIds, medication_id \in {"med_plain", "med_blood"} :
        ModifyRequest(w, Some("gp"), prescription_id,
                      [medication_id |-> Some(medication_id), time_statement |-> None])

ApproveRequests(w) ==
    \E prescription_id \in PrescriptionIds :
        ApproveRequest(w, Some("gp"), prescription_id)

IssueRequests(w) ==
    \E prescription_id \in PrescriptionIds :
        IssueRequest(w, Some("tech"), prescription_id)

DeleteRequests(w) ==
    \E prescription_id \in PrescriptionIds :
        DeleteRequest(w, Some("gp"), prescription_id)

CompleteRequests(w) ==
    \E request_id \in PrescriptionIds :
        CompleteRequest(w, Some("gp"), request_id)

Handle(w) ==
    \/ CreatePrescription(w)
    \/ CreateBloodworkRequest(w)
    \/ ModifyUpdate(w)
    \/ ApproveBloodworkGate(w)
    \/ ApproveMark(w)
    \/ IssueMark(w)
    \/ DeleteExecute(w)
    \/ CompleteMark(w)

Next ==
    \/ Tick
    \/ \E w \in Workers :
        \/ CreateRequests(w)
        \/ ModifyRequests(w)
        \/ ApproveRequests(w)
        \/ IssueRequests(w)
        \/ DeleteRequests(w)
        \/ CompleteRequests(w)
        \/ Handle(w)

Init ==
    /\ repeat_prescriptions = {}
    /\ blood_requests = {}
    /\ role_by_user = InitRoleByUser
    /\ permissions_by_role = InitPermissionsByRole
    /\ now = 0
    /\ created = 0
    /\ requests = [w \in Workers |-> Idle]
    /\ last = NoRequest
    /\ recording = FALSE
    /\ script = 0
    /\ issued_tokens = {}
    /\ NoAccounts

Spec == Init /\ [][Next]_vars

\* One client that sends a request, reads the answer and sends the next.
SeqInit ==
    /\ repeat_prescriptions = {}
    /\ blood_requests = {}
    /\ role_by_user = InitRoleByUser
    /\ permissions_by_role = InitPermissionsByRole
    /\ now = 0
    /\ created = 0
    /\ requests = [w \in Workers |-> Idle]
    /\ last = NoRequest
    /\ recording = TRUE
    /\ script = 0
    /\ issued_tokens = {}
    /\ NoAccounts

SeqNext ==
    \/ Tick
    \/ Deliver
    \/ CreateRequests(1)
    \/ ModifyRequests(1)
    \/ \E token \in Tokens, prescription_id \in PathIds :
            ApproveRequest(1, token, prescription_id)
    \/ \E token \in Tokens, prescription_id \in PathIds :
            IssueRequest(1, token, prescription_id)
    \/ DeleteRequests(1)
    \/ CompleteRequests(1)
    \/ Handle(1)

SeqSpec == SeqInit /\ [][SeqNext]_vars

\* One client sending one request at a time, with every token and path id
\* for bloodwork completion and the staff's requests for the rest.
CompleteNext ==
    \/ Tick
    \/ Deliver
    \/ CreateRequests(1)
    \/ ModifyRequests(1)
    \/ ApproveRequests(1)
    \/ IssueRequests(1)
    \/ DeleteRequests(1)
    \/ \E token \in Tokens, request_id \in PathIds :
            CompleteRequest(1, token, request_id)
    \/ Handle(1)

CompleteSpec == SeqInit /\ [][CompleteNext]_vars

\* One client that sends Create requests of every kind.
CreateNext ==
    \/ Tick
    \/ Deliver
    \/ \E token \in Tokens, username \in Usernames,
          medication_id \in MedicationIds, time_statement \in TimeStatements :
            CreateRequest(1, token, username, medication_id, time_statement)
    \/ CreatePrescription(1)
    \/ CreateBloodworkRequest(1)

CreateSpec == SeqInit /\ [][CreateNext]_vars

\* Concurrent Create, Approve and completion requests whose answers are read.
RaceNext ==
    \/ Tick
    \/ Deliver
    \/ \E w \in Workers :
        \/ CreateRequests(w)
        \/ ApproveRequests(w)
        \/ CompleteRequests(w)
        \/ CreatePrescription(w)
        \/ CreateBloodworkRequest(w)
        \/ ApproveBloodworkGate(w)
        \/ ApproveMark(w)
        \/ CompleteMark(w)

RaceSpec == SeqInit /\ [][RaceNext]_vars

\* The scripted client: Create for a medication that requires bloodwork,
\* Approve, complete the bloodwork request, Approve, Issue at the filling
\* pharmacy, Issue again; each request is sent when the answer to the one
\* before has been read.
ReadAnswer ==
    /\ last # NoRequest
    /\ last' = NoRequest
    /\ script' = script + 1
    /\ UNCHANGED <<repeat_prescriptions, blood_requests, role_by_user,
                   permissions_by_role, recording, now, created, requests,
                   issued_tokens, accounts>>

ScenarioNext ==
    \/ Tick
    \/ ReadAnswer
    \/ /\ script = 0
       /\ \E time_statement \in {"R/2021-01-01/P30D", "R/2021-01-01T00:00:00Z/P30D"} :
            CreateRequest(1, Some("gp"), "pat", "med_blood", time_statement)
    \/ /\ script \in {1, 3}
       /\ \E rp \in repeat_prescriptions, token \in {Some("gp"), Some("admin")} :
            ApproveRequest(1, token, rp.prescription_id)
    \/ /\ script = 2
       /\ \E br \in blood_requests : CompleteRequest(1, Some("gp"), br.request_id)
    \/ /\ script \in {4, 5}
       /\ \E rp \in repeat_prescriptions, token \in {Some("tech"), Some("tech2")} :
            IssueRequest(1, token, rp.prescription_id)
    \/ CreatePrescription(1)
    \/ CreateBloodworkRequest(1)
    \/ ApproveBloodworkGate(1)
    \/ ApproveMark(1)
    \/ CompleteMark(1)
    \/ IssueMark(1)

ScenarioSpec == SeqInit /\ [][ScenarioNext]_vars

\* One client of the guard and of role administration: requests to a guarded
\* read-only route with every kind of token, and an administrator replacing
\* the roles of one identity and the permissions of one role.
PermissionSets ==
    { {}, {"prescription.issue"}, {"prescription.approve"},
      {"prescription.issue", "prescription.approve"} }
\* Lists of at most MaxIds ids.
Lists(ids) == UNION {[1..n -> ids] : n \in 0..MaxIds}
RoleIdLists == Lists({"r_tech", "r_gp"}) \cup {<<"r_tech", "r_none">>}
PermissionIdLists ==
    Lists({"p_all", "p_issue", "p_approve"})
        \cup {<<"p_issue", "p_none">>, <<"p_issue", "p_issue", "p_approve">>}

AuthNext ==
    \/ Deliver
    \/ \E token \in AuthTokens, perms \in PermissionSets :
            AuthorizeRequest(1, token, perms)
    \/ \E role_ids \in RoleIdLists :
            AssignRolesRequest(1, Some("admin"), "tech", role_ids)
    \/ AssignRolesRemove(1)
    \/ AssignRolesAdd(1)
    \/ \E permission_ids \in PermissionIdLists :
            AddPermissionsRequest(1, Some("admin"), "r_tech", permission_ids)
    \/ AddPermissionsRemove(1)
    \/ AddPermissionsAdd(1)

AuthSpec == SeqInit /\ [][AuthNext]_vars

\* Role administration by one client, for stored and unknown roles, by an
\* administrator, by an identity without any permission and without a valid
\* token.
RoleAdminTokens == {Some("admin"), Some("pat"), MalformedToken}
RoleAdminRoleLists == Lists({"r_tech", "r_gp"}) \cup {<<"r_tech", "r_none">>}
RoleAdminPermissionLists ==
    Lists({"p_issue", "p_approve"})
        \cup {<<"p_issue", "p_none">>, <<"p_issue", "p_issue", "p_approve">>}

RolesNext ==
    \/ Deliver
    \/ \E token \in RoleAdminTokens, username \in {"tech", "pat"},
          role_ids \in RoleAdminRoleLists :
            AssignRolesRequest(1, token, username, role_ids)
    \/ AssignRolesRemove(1)
    \/ AssignRolesAdd(1)
    \/ \E token \in RoleAdminTokens, role_id \in {"r_tech", "r_gp", "r_none"},
          permission_ids \in RoleAdminPermissionLists :
            AddPermissionsRequest(1, token, role_id, permission_ids)
    \/ AddPermissionsRemove(1)
    \/ AddPermissionsAdd(1)
    \/ \E perms \in {{"prescription.issue"}, {"prescription.approve"}} :
            AuthorizeRequest(1, Some("pat"), perms)

RolesSpec == SeqInit /\ [][RolesNext]_vars

\* Two add_permissions_to_role requests at the same time, one per worker,
\* each with its own list.  The handler is an async def whose body never
\* awaits, so one server process runs a body to its end before it starts
\* another: the two workers are two server processes on the one database.
\* No request is accepted once an answer has been handed out.
RaceList(w) ==
    IF w = 1 THEN <<"p_issue", "p_approve">> ELSE <<"p_approve", "p_all">>

RoleRaceNext ==
    \/ \E w \in Workers, role_id \in {"r_tech", "r_gp"} :
            AddPermissionsRequest(w, Some("admin"), role_id, RaceList(w))
    \/ \E w \in Workers : AddPermissionsRemove(w)
    \/ \E w \in Workers : AddPermissionsAdd(w)

RoleRaceSpec == SeqInit /\ [][RoleRaceNext]_vars

\* One client sending every guarded operation with a token that is refused,
\* with the token of an identity without any permission and with the tokens
\* of the staff.
GuardTokens == {MalformedToken, Some("pat"), Some("gp"), Some("tech"), Some("admin")}

GuardNext ==
    \/ Deliver
    \/ \E token \in GuardTokens, medication_id \in {"med_plain", "med_blood"} :
            CreateRequest(1, token, "pat", medication_id, "R/2021-01-01/P30D")
    \/ \E token \in GuardTokens, prescription_id \in PrescriptionIds :
            ModifyRequest(1, token, prescription_id,
                          [medication_id |-> Some("med_plain"), time_statement |-> None])
    \/ \E token \in GuardTokens, prescription_id \in PrescriptionIds :
            ApproveRequest(1, token, prescription_id)
    \/ \E token \in GuardTokens, prescription_id \in PrescriptionIds :
            IssueRequest(1, token, prescription_id)
    \/ \E token \in GuardTokens, prescription_id \in PrescriptionIds :
            DeleteRequest(1, token, prescription_id)
    \/ \E token \in GuardTokens, request_id \in PrescriptionIds :
            CompleteRequest(1, token, request_id)
    \/ Handle(1)
    \/ \E token \in {MalformedToken, Some("pat"), Some("admin")},
          role_ids \in {<<>>, <<"r_gp">>} :
            AssignRolesRequest(1, token, "tech", role_ids)
    \/ AssignRolesRemove(1)
    \/ AssignRolesAdd(1)
    \/ \E token \in {MalformedToken, Some("pat"), Some("admin")},
          permission_ids \in {<<>>, <<"p_approve">>} :
            AddPermissionsRequest(1, token, "r_tech", permission_ids)
    \/ AddPermissionsRemove(1)
    \/ AddPermissionsAdd(1)

GuardSpec == SeqInit /\ [][GuardNext]_vars

\* The requests of one identity that holds no role: role administration and
\* guarded reads, all with its own token.
OwnRequestsNext ==
    \/ Deliver
    \/ \E username \in {"tech", "pat"}, role_ids \in RoleAdminRoleLists :
            AssignRolesRequest(1, Some("pat"), username, role_ids)
    \/ AssignRolesRemove(1)
    \/ AssignRolesAdd(1)
    \/ \E role_id \in {"r_tech", "r_gp", "r_none"},
          permission_ids \in RoleAdminPermissionLists :
            AddPermissionsRequest(1, Some("pat"), role_id, permission_ids)
    \/ AddPermissionsRemove(1)
    \/ AddPermissionsAdd(1)
    \/ \E perms \in {{"prescription.issue"}, {"prescription.approve"}} :
            AuthorizeRequest(1, Some("pat"), perms)

OwnRequestsSpec == SeqInit /\ [][OwnRequestsNext]_vars

\* One client sending one request at a time, with every body for Modify and
\* the staff's requests for the rest.
ModifyChanges ==
    [medication_id : {None} \cup {Some(m) : m \in MedicationIds},
     time_statement : {None} \cup {Some(t) : t \in TimeStatements}]

ModifyNext ==
    \/ Deliver
    \/ CreateRequests(1)
    \/ \E prescription_id \in PrescriptionIds, changes \in ModifyChanges :
            ModifyRequest(1, Some("gp"), prescription_id, changes)
    \/ ApproveRequests(1)
    \/ IssueRequests(1)
    \/ DeleteRequests(1)
    \/ CompleteRequests(1)
    \/ Handle(1)

ModifySpec == SeqInit /\ [][ModifyNext]_vars

\* The registration of pharmacies and medical practices, one request at a
\* time: two names of each kind, two master usernames, an administrator and a
\* patient asking.
PharmacyNames == {"Boots", "Lloyds"}
PracticeNames == {"Elm", "Oak"}
MasterUsernames == {"master1", "master2"}

InstitutionNext ==
    \/ Deliver
    \/ \E token \in {Some("admin"), Some("pat")}, username \in MasterUsernames :
        \/ \E name \in PharmacyNames : CreatePharmacyRequest(1, token, name, username)
        \/ \E name \in PracticeNames : CreatePracticeRequest(1, token, name, username)
    \/ CreatePendingUser(1)
    \/ DeletePharmacy(1)
    \/ CreateRegistrationToken(1)

InstitutionSpec == SeqInit /\ [][InstitutionNext]_vars

\* Concurrent Issue requests of two identities of the filling pharmacy, after
\* the prescription has been created and approved; the answers are read.
IssueRaceNext ==
    \/ Tick
    \/ Deliver
    \/ \E w \in Workers :
        \/ CreateRequests(w)
        \/ ApproveRequests(w)
        \/ \E token \in {Some("tech"), Some("tech2")},
              prescription_id \in PrescriptionIds :
                IssueRequest(w, token, prescription_id)
        \/ CreatePrescription(w)
        \/ CreateBloodworkRequest(w)
        \/ ApproveBloodworkGate(w)
        \/ ApproveMark(w)
        \/ IssueMark(w)

IssueRaceSpec == SeqInit /\ [][IssueRaceNext]_vars

\* Concurrent Modify requests that each supply one field: a new time
\* statement only, or a new medication only.
DisjointChanges ==
    { [medication_id |-> None, time_statement |-> Some("R/2021-01-01/P30D")],
      [medication_id |-> Some("med_blood"), time_statement |-> None] }

ModifyRaceNext ==
    \/ Deliver
    \/ \E w \in Workers :
        \/ CreateRequest(w, Some("gp"), "pat", "med_plain", "R/2021-01-01/P30D")
        \/ \E prescription_id \in PrescriptionIds, changes \in DisjointChanges :
                ModifyRequest(w, Some("gp"), prescription_id, changes)
        \/ CreatePrescription(w)
        \/ ModifyUpdate(w)

ModifyRaceSpec == SeqInit /\ [][ModifyRaceNext]_vars

\* Replacements that keep a grant, and the holder of the grant asking for it
\* meanwhile: the permissions of r_tech and the roles of tech are replaced by
\* lists that still give tech the permission prescription.issue.
KeepingPermissionLists == {<<"p_issue">>, <<"p_approve", "p_issue">>}

ReplaceRaceNext ==
    \/ Deliver
    \/ \E w \in Workers :
        \/ \E permission_ids \in KeepingPermissionLists :
                AddPermissionsRequest(w, Some("admin"), "r_tech", permission_ids)
        \/ AssignRolesRequest(w, Some("admin"), "tech", <<"r_tech">>)
        \/ AuthorizeRequest(w, Some("tech"), {"prescription.issue"})
        \/ AddPermissionsRemove(w)
        \/ AddPermissionsAdd(w)
        \/ AssignRolesRemove(w)
        \/ AssignRolesAdd(w)

ReplaceRaceSpec == SeqInit /\ [][ReplaceRaceNext]_vars

\* Registration and conversion, two conversions at a time: a pharmacy and a
\* practice are registered with a new master username or with the username
\* of a stored identity, and their tokens, or tokens nobody handed out, are
\* redeemed by concurrent requests.
ConvertUsernames == {"master1", "gp"}
RegistrationTokenInputs ==
    {MalformedRegistrationToken}
        \cup {<<u, t>> : u \in ConvertUsernames,
                         t \in {HEAD_PHARMACIST, MEDICAL_PRACTICE_ADMINISTRATOR}}

ConvertNext ==
    \/ Deliver
    \/ \E username \in ConvertUsernames :
        \/ CreatePharmacyRequest(1, Some("admin"), "Boots", username)
        \/ CreatePracticeRequest(1, Some("admin"), "Elm", username)
    \/ CreatePendingUser(1)
    \/ DeletePharmacy(1)
    \/ CreateRegistrationToken(1)
    \/ \E w \in Workers :
        \/ \E registration_token \in RegistrationTokenInputs :
                ConvertRequest(w, registration_token, "secret")
        \/ ConvertGetPendingUser(w)
        \/ ConvertCreateUser(w)
        \/ ConvertAddRole(w)
        \/ ConvertDeletePending(w)

ConvertSpec == SeqInit /\ [][ConvertNext]_vars

\* A patient who holds patient.pharmacy.own through the role r_patient
\* chooses pharmacies, and the practice writes prescriptions for the patient.
PreferInit ==
    /\ repeat_prescriptions = {}
    /\ blood_requests = {}
    /\ role_by_user = InitRoleByUser
                        \cup {[username |-> "pat", role_id |-> "r_patient"]}
    /\ permissions_by_role = InitPermissionsByRole
                        \cup {[role_id |-> "r_patient", permission_id |-> "p_prefer"]}
    /\ now = 0
    /\ created = 0
    /\ requests = [w \in Workers |-> Idle]
    /\ last = NoRequest
    /\ recording = TRUE
    /\ script = 0
    /\ issued_tokens = {}
    /\ NoAccounts

PharmacyPathIds == {"ph1", "ph2", "mp1", MalformedPharmacyId}

PreferNext ==
    \/ Deliver
    \/ \E token \in {None, Some("gp"), Some("pat"), Some("tech")},
          pharmacy_id \in PharmacyPathIds :
            PreferRequest(1, token, pharmacy_id)
    \/ PreferSet(1)
    \/ CreateRequests(1)
    \/ CreatePrescription(1)
    \/ CreateBloodworkRequest(1)

PreferSpec == PreferInit /\ [][PreferNext]_vars

\* Lookups by short code, two at a time, while a prescription created
\* earlier is stored and the practice creates further ones.
EarlierPrescriptionId == MaxPrescriptions + 1
EarlierPrescription ==
    [prescription_id |-> EarlierPrescriptionId,
     medication_id |-> "med_plain",
     time_statement |-> "R/2021-01-01T00:00:00Z/P30D",
     institution_id |-> "ph1",
     created_by_institution_id |-> "mp1",
     username |-> "pat",
     approved_at |-> None,
     issued_at |-> None,
     issued_by |-> None,
     short_code |-> SeededShortCode]
OtherShortCode == 0

ShortCodeInit ==
    /\ repeat_prescriptions = {EarlierPrescription}
    /\ blood_requests = {}
    /\ role_by_user = InitRoleByUser
    /\ permissions_by_role = InitPermissionsByRole
    /\ now = 0
    /\ created = 0
    /\ requests = [w \in Workers |-> Idle]
    /\ last = NoRequest
    /\ recording = TRUE
    /\ script = 0
    /\ issued_tokens = {}
    /\ NoAccounts

ShortCodeNext ==
    \/ Deliver
    \/ \E w \in Workers :
        \/ CreateRequests(w)
        \/ CreatePrescription(w)
        \/ CreateBloodworkRequest(w)
        \/ \E token \in {None, Some("tech"), Some("admin")},
              short_code \in {SeededShortCode, OtherShortCode} :
                ShortCodeRequest(w, token, short_code)
        \/ ShortCodeGet(w)

ShortCodeSpec == ShortCodeInit /\ [][ShortCodeNext]_vars

\* Logins, tokens of short life, and the guard on the tokens handed out.
TokenExpiries == {0, 1}

TokenNext ==
    \/ Tick
    \/ Deliver
    \/ \E username \in {"tech", "tech2", "ghost"}, password \in Passwords :
            LoginRequest(1, username, password)
    \/ \E token_expiry_minutes \in TokenExpiries :
            CreateToken("tech", token_expiry_minutes)
    \/ \E i \in issued_tokens : AuthorizeRequest(1, i.token, {})

TokenSpec == SeqInit /\ [][TokenNext]_vars

\* ================================================================== claims
Row(prescription_id) ==
    {rp \in repeat_prescriptions : rp.prescription_id = prescription_id}
RequestsOf(prescription_id) ==
    {br \in blood_requests : br.prescription_id = prescription_id}
Approved(rp) == rp.approved_at # None
Issued(rp) == rp.issued_at # None
\* This step hands the client the answer to a request of the kind op.
Answered(op) == last = NoRequest /\ last' # NoRequest /\ last'.req.op = op
\* The identity a token carries, and whether the guard lets it pass.
UserOf(token) == CHOOSE u \in users : Some(u.username) = token
Authorized(token, permission) == PermissionsChecker({permission}, token).ok
InMedicalPractice(institution_id) ==
    \E i \in institutions :
        /\ i.institution_type = MEDICAL_PRACTICE
        /\ institution_id = Some(i.institution_id)

\* C1: in every state reachable by interleaved Create, Modify, Approve, Issue,
\* Delete and bloodwork-completion requests, a prescription whose issued_at is
\* set has approved_at set.
C1_IssuedImpliesApproved ==
    \A rp \in repeat_prescriptions : Issued(rp) => Approved(rp)

C1_Witness ==
    \E rp \in repeat_prescriptions : Issued(rp) /\ Approved(rp)

\* C5: in every reachable state issued_at and issued_by of a prescription are
\* both set or both unset, and a step that sets them is the UPDATE of an Issue
\* request, which sets issued_at to the current time and issued_by to the
\* issuing identity together.
C5_IssuedAtAndByTogether ==
    [][ \A rp \in repeat_prescriptions' :
          /\ (rp.issued_at = None) <=> (rp.issued_by = None)
          /\ (/\ Issued(rp)
              /\ \A old \in Row(rp.prescription_id) :
                    <<old.issued_at, old.issued_by>> # <<rp.issued_at, rp.issued_by>>)
             => /\ rp.issued_at = Some(now)
                /\ \E w \in Workers :
                     /\ requests[w].pc = "mark_prescription_issued"
                     /\ requests[w].prescription_id = rp.prescription_id
                     /\ requests'[w] = Idle
                     /\ rp.issued_by = requests[w].token ]_vars

C5_Witness ==
    \E rp \in repeat_prescriptions :
        /\ rp.issued_at = Some(now) /\ now > 0
        /\ rp.issued_by = Some("tech")

\* C6: in every reachable state, also under interleaved Approve and Issue
\* requests, a prescription with issued_at set has issued_at >= approved_at.
C6_IssuedNotBeforeApproved ==
    \A rp \in repeat_prescriptions :
        (Issued(rp) /\ Approved(rp)) => Get(rp.issued_at) >= Get(rp.approved_at)

\* C7 as claimed: a prescription that is ISSUED is still stored and ISSUED
\* after every step.
C7_IssuedNeverRemoved ==
    [][ \A rp \in repeat_prescriptions :
          Issued(rp) =>
            \E new \in repeat_prescriptions' :
                new.prescription_id = rp.prescription_id /\ Issued(new) ]_vars

\* C7 as amended: an ISSUED prescription never goes back to CREATED or
\* APPROVED (while it is stored, issued_at and approved_at stay set), and it
\* leaves the store only by the DELETE of a Delete request for it, which
\* removes a prescription in any state, ISSUED included.
C7_IssuedStaysIssuedUntilDeleted ==
    [][ \A rp \in repeat_prescriptions :
          Issued(rp) =>
            /\ \A new \in repeat_prescriptions' :
                 new.prescription_id = rp.prescription_id
                    => Issued(new) /\ Approved(new)
            /\ (\A new \in repeat_prescriptions' :
                    new.prescription_id # rp.prescription_id)
                 => \E w \in Workers :
                      /\ requests[w].pc = "delete_prescription"
                      /\ requests[w].prescription_id = rp.prescription_id
                      /\ requests'[w] = Idle ]_vars

\* The DELETE of a Delete request is about to remove an ISSUED prescription.
C7_Witness ==
    \E rp \in repeat_prescriptions, w \in Workers :
        /\ Issued(rp)
        /\ requests[w].pc = "delete_prescription"
        /\ requests[w].prescription_id = rp.prescription_id

\* C2: for the client that sends one request at a time, Approve of a stored,
\* not yet approved prescription by an authorized identity is answered 204
\* and sets approved_at to the current time iff the prescription has no
\* bloodwork request or its request is completed; otherwise it is answered
\* 400 'Bloodwork incomplete.' and approved_at stays unset.
C2_ApproveIffGateClear ==
    [][ Answered("approve") =>
          \A rp \in Row(last'.req.prescription_id) :
            (Authorized(last'.req.token, "prescription.approve") /\ ~Approved(rp))
            => IF \A br \in RequestsOf(rp.prescription_id) : br.completed_at # None
               THEN /\ last'.status = HTTP_204_NO_CONTENT
                    /\ repeat_prescriptions' =
                         (repeat_prescriptions \ {rp})
                            \cup {[rp EXCEPT !.approved_at = Some(now)]}
               ELSE /\ last'.status = HTTP_400_BAD_REQUEST
                    /\ last'.detail = "Bloodwork incomplete."
                    /\ UNCHANGED repeat_prescriptions ]_vars

\* Approve has just succeeded for a prescription whose request is completed.
C2_Witness ==
    /\ last # NoRequest
    /\ last.req.op = "approve"
    /\ last.status = HTTP_204_NO_CONTENT
    /\ \E rp \in Row(last.req.prescription_id) :
         /\ Approved(rp)
         /\ \E br \in RequestsOf(rp.prescription_id) : br.completed_at # None

\* C3: the scripted run Create (medication requiring bloodwork), Approve,
\* complete, Approve, Issue at the filling pharmacy, Issue is answered, in
\* this order: created with a bloodwork request id, 'Bloodwork incomplete.',
\* completed, approved, issued, 'Prescription already issued.'; and the
\* prescription ends ISSUED.
C3_ScenarioOutcomes ==
    /\ (last # NoRequest /\ script = 0) =>
          /\ last.status = HTTP_201_CREATED
          /\ Get(last.body).bloodwork_request_id # None
    /\ (last # NoRequest /\ script = 1) =>
          /\ last.status = HTTP_400_BAD_REQUEST
          /\ last.detail = "Bloodwork incomplete."
    /\ (last # NoRequest /\ script = 2) =>
          /\ last.status = HTTP_204_NO_CONTENT
          /\ \A br \in blood_requests : br.completed_at # None
    /\ (last # NoRequest /\ script = 3) =>
          /\ last.status = HTTP_204_NO_CONTENT
          /\ \A rp \in repeat_prescriptions : Approved(rp) /\ ~Issued(rp)
    /\ (last # NoRequest /\ script = 4) =>
          /\ last.status = HTTP_204_NO_CONTENT
          /\ \A rp \in repeat_prescriptions : Issued(rp)
    /\ (last # NoRequest /\ script = 5) =>
          /\ last.status = HTTP_400_BAD_REQUEST
          /\ last.detail = "Prescription already issued."
    /\ script >= 5 =>
          /\ repeat_prescriptions # {}
          /\ \A rp \in repeat_prescriptions : Approved(rp) /\ Issued(rp)

\* The client has read the answer to the second Issue.
C3_Witness == script = 6

\* C4: for the client that sends one request at a time, Issue of a stored
\* prescription by an authorized identity is decided by the first failing
\* check of: institution of the identity = filling institution, else 403
\* 'Wrong institution.'; not yet issued, else 400 'Prescription already
\* issued.'; approved, else 400 'Prescription not approved for issue.'; on
\* each of the three the prescription is left unchanged.
C4_IssueCheckOrder ==
    [][ Answered("issue") =>
          \A rp \in Row(last'.req.prescription_id) :
            Authorized(last'.req.token, "prescription.issue")
            => IF UserOf(last'.req.token).institution_id # Some(rp.institution_id)
               THEN /\ last'.status = HTTP_403_FORBIDDEN
                    /\ last'.detail = "Wrong institution."
                    /\ UNCHANGED repeat_prescriptions
               ELSE IF Issued(rp)
               THEN /\ last'.status = HTTP_400_BAD_REQUEST
                    /\ last'.detail = "Prescription already issued."
                    /\ UNCHANGED repeat_prescriptions
               ELSE IF ~Approved(rp)
               THEN /\ last'.status = HTTP_400_BAD_REQUEST
                    /\ last'.detail = "Prescription not approved for issue."
                    /\ UNCHANGED repeat_prescriptions
               ELSE last'.status = HTTP_204_NO_CONTENT ]_vars

\* An identity of another pharmacy has been answered 'Wrong institution.' for
\* a prescription that is already issued.
C4_Witness ==
    /\ last # NoRequest
    /\ last.req.op = "issue"
    /\ last.detail = "Wrong institution."
    /\ \E rp \in Row(last.req.prescription_id) : Issued(rp)

\* C8: an Approve request of an authorized identity that reads a prescription
\* with approved_at set is answered at once, before the bloodwork request is
\* read, with 400 'Prescription already approved.' (not 'Bloodwork
\* incomplete.'), and approved_at keeps its value.
C8_AlreadyApprovedDeclined ==
    [][ \A w \in Workers :
          LET req == IF requests'[w].pc # "idle" THEN requests'[w] ELSE last'.req
              accepted == /\ Accepts(w)
                          /\ \/ requests'[w].pc # "idle"
                             \/ last' # NoRequest /\ last'.worker = w
          IN  (accepted /\ req.op = "approve")
              => \A rp \in Row(req.prescription_id) :
                   (Authorized(req.token, "prescription.approve") /\ Approved(rp))
                   => /\ requests'[w].pc = "idle"
                      /\ last'.status = HTTP_400_BAD_REQUEST
                      /\ last'.detail = "Prescription already approved."
                      /\ last'.detail # "Bloodwork incomplete."
                      /\ UNCHANGED repeat_prescriptions ]_vars

\* 'Prescription already approved.' has been answered for a prescription
\* whose bloodwork request is incomplete.
C8_Witness ==
    /\ last # NoRequest
    /\ last.req.op = "approve"
    /\ last.detail = "Prescription already approved."
    /\ \E br \in RequestsOf(last.req.prescription_id) : br.completed_at = None

\* C9: a Create of an authorized identity is declined with the reason of the
\* first failing check, in the order: target identity exists ('User not
\* found.'), requesting institution is a medical practice ('Institution
\* invalid.'), target has a pharmacy assignment ('Pharmacy assignment not
\* found.'), target's institution is a medical practice ('User does not
\* belong to medical practice.'), medication exists ('Medication invalid.'),
\* time statement parses ('Time statement invalid.'); a declined Create
\* stores no prescription and no bloodwork request.
C9_CreateCheckOrder ==
    [][ (Answered("create") /\ Authorized(last'.req.token, "prescription.create"))
        => LET req == last'.req
               Declined(reason) ==
                   /\ last'.status = HTTP_400_BAD_REQUEST
                   /\ last'.detail = reason
                   /\ UNCHANGED <<repeat_prescriptions, blood_requests>>
           IN  IF ~\E u \in users : u.username = req.username
               THEN Declined("User not found.")
               ELSE IF ~InMedicalPractice(UserOf(req.token).institution_id)
               THEN Declined("Institution invalid.")
               ELSE IF ~\E a \in pharmacy_assignments : a.username = req.username
               THEN Declined("Pharmacy assignment not found.")
               ELSE IF ~InMedicalPractice(UserOf(Some(req.username)).institution_id)
               THEN Declined("User does not belong to medical practice.")
               ELSE IF ~\E m \in medications : m.medication_id = req.medication_id
               THEN Declined("Medication invalid.")
               ELSE IF ParseTimeRecurrence(req.time_statement) = None
               THEN Declined("Time statement invalid.")
               ELSE last'.status = HTTP_201_CREATED ]_vars

\* A Create that fails the second, third, fourth, fifth and sixth check has
\* been declined with the reason of the second.
C9_Witness ==
    /\ last # NoRequest
    /\ last.req.op = "create"
    /\ last.req.token = Some("admin")
    /\ last.req.username = "tech3"
    /\ last.req.medication_id = "med_none"
    /\ last.req.time_statement = "monthly"
    /\ last.detail = "Institution invalid."

\* C10: a Create answered 201 has stored exactly one prescription under the
\* returned id, with approved_at, issued_at and issued_by unset, the
\* requesting identity's institution as issuing institution and the target's
\* pharmacy assignment as filling institution; it has stored exactly one
\* bloodwork request for it, incomplete and in the requesting identity's
\* institution, iff the medication carries a bloodwork requirement, and
\* returns that request's id, else none.  Each Create stores at most one
\* prescription and one request, in its own insert steps.
C10_CreatePersists ==
    [][ /\ repeat_prescriptions' # repeat_prescriptions =>
            /\ requests[1].pc = "create_prescription"
            /\ requests'[1].pc # "create_prescription"
            /\ repeat_prescriptions \subseteq repeat_prescriptions'
            /\ Cardinality(repeat_prescriptions') = Cardinality(repeat_prescriptions) + 1
        /\ blood_requests' # blood_requests =>
            /\ requests[1].pc = "create_bloodwork_request"
            /\ requests'[1].pc = "idle"
            /\ blood_requests \subseteq blood_requests'
            /\ Cardinality(blood_requests') = Cardinality(blood_requests) + 1
        /\ (Answered("create") /\ last'.status = HTTP_201_CREATED) =>
            LET req == last'.req
                body == Get(last'.body)
                stored == {rp \in repeat_prescriptions' :
                             rp.prescription_id = body.prescription_id}
                linked == {br \in blood_requests' :
                             br.prescription_id = body.prescription_id}
                required == \E m \in medications :
                              /\ m.medication_id = req.medication_id
                              /\ m.bloodwork_requirement # None
            IN  /\ Cardinality(stored) = 1
                /\ \A rp \in stored :
                     /\ rp.approved_at = None
                     /\ rp.issued_at = None
                     /\ rp.issued_by = None
                     /\ rp.username = req.username
                     /\ rp.medication_id = req.medication_id
                     /\ Some(rp.created_by_institution_id)
                          = UserOf(req.token).institution_id
                     /\ \E a \in pharmacy_assignments :
                          /\ a.username = req.username
                          /\ a.institution_id = rp.institution_id
                /\ Cardinality(linked) = IF required THEN 1 ELSE 0
                /\ \A br \in linked :
                     /\ br.completed_at = None
                     /\ Some(br.practice_id) = UserOf(req.token).institution_id
                     /\ body.bloodwork_request_id = Some(br.request_id)
                /\ ~required => body.bloodwork_request_id = None ]_vars

\* A Create for a medication that requires bloodwork has been answered 201
\* with the id of its bloodwork request.
C10_Witness ==
    /\ last # NoRequest
    /\ last.req.op = "create"
    /\ last.status = HTTP_201_CREATED
    /\ Get(last.body).bloodwork_request_id # None
    /\ blood_requests # {}

\* The medication currently named by a prescription carries a bloodwork
\* requirement.
RequiresBloodwork(medication_id) ==
    \E m \in medications :
        m.medication_id = medication_id /\ m.bloodwork_requirement # None

\* C11: Create makes the prescription and its bloodwork request visible
\* together: an Approve interleaved with Create never passes the bloodwork
\* gate for a prescription of a bloodwork-requiring medication whose request
\* is not stored yet.
C11_ApproveNeverSeesMissingRequest ==
    [][ \A w \in Workers :
          (/\ requests[w].pc = "get_bloodwork_request"
           /\ requests'[w].pc = "mark_prescription_approved")
          => \A rp \in Row(requests[w].prescription_id) :
               RequiresBloodwork(rp.medication_id)
                  => RequestsOf(rp.prescription_id) # {} ]_vars

\* C12: in every reachable state a prescription that is approved and whose
\* current medication carries a bloodwork requirement has a bloodwork request
\* with completed_at set, also after Modify has replaced its medication.
C12_ApprovedHasCompletedBloodwork ==
    \A rp \in repeat_prescriptions :
        (Approved(rp) /\ RequiresBloodwork(rp.medication_id))
            => \E br \in RequestsOf(rp.prescription_id) : br.completed_at # None

\* C13: a bloodwork request is marked complete exactly once: once
\* completed_at is set, no later step changes or unsets it while the request
\* is stored.
C13_CompletedAtSetOnce ==
    [][ \A br \in blood_requests, new \in blood_requests' :
          (br.completed_at # None /\ new.request_id = br.request_id)
             => new.completed_at = br.completed_at ]_vars

\* C14: completed_at of a stored bloodwork request changes only in the UPDATE
\* of a completion request made by an identity whose institution is the
\* request's practice (no step of Create, Modify, Approve, Issue or Delete
\* changes it); a completion request of a permitted identity of any other
\* institution is answered 404 'Bloodwork request not found.', as for an id
\* nothing is stored under, and changes nothing.
C14_CompletionOnlyByPractice ==
    [][ /\ \A br \in blood_requests, new \in blood_requests' :
             (new.request_id = br.request_id /\ new.completed_at # br.completed_at)
             => /\ requests[1].pc = "mark_bloodwork_request_complete"
                /\ requests[1].request_id = br.request_id
                /\ UserOf(requests[1].token).institution_id = Some(br.practice_id)
        /\ (/\ Answered("complete")
            /\ Authorized(last'.req.token, "bloodwork-request.complete")
            /\ last'.req.request_id # MalformedId)
           => LET own == {br \in blood_requests :
                            /\ br.request_id = last'.req.request_id
                            /\ Some(br.practice_id)
                                  = UserOf(last'.req.token).institution_id}
              IN  own = {} => /\ last'.status = HTTP_404_NOT_FOUND
                              /\ last'.detail = "Bloodwork request not found."
                              /\ UNCHANGED blood_requests ]_vars

\* An identity that holds the permission but is not of the request's practice
\* has been answered 'Bloodwork request not found.' for a stored request.
C14_Witness ==
    /\ last # NoRequest
    /\ last.req.op = "complete"
    /\ last.req.token = Some("admin")
    /\ last.detail = "Bloodwork request not found."
    /\ \E br \in blood_requests :
         br.request_id = last.req.request_id /\ br.completed_at = None

\* The permission names an identity holds, as the union over its roles of
\* the names of each role's permissions, on given edge tables.
RolePermissionNames(role_id, pbr_rows) ==
    { p.name : p \in { p \in permissions :
                         [role_id |-> role_id, permission_id |-> p.permission_id]
                             \in pbr_rows } }
EffectivePermissions(username, rbu_rows, pbr_rows) ==
    UNION { RolePermissionNames(rbu.role_id, pbr_rows) :
              rbu \in {e \in rbu_rows : e.username = username} }
HoldsWildcard(username) ==
    \E rbu \in role_by_user :
        /\ rbu.username = username
        /\ "*" \in RolePermissionNames(rbu.role_id, permissions_by_role)
\* The guard answers a request for a route that requires some permission and
\* carries the token of a stored identity.
AuthorizeAnswered ==
    /\ Answered("authorize")
    /\ get_current_user(last'.req.token).ok

\* C15: for every authenticated identity and every state of the role and
\* permission edges, authorize with an empty required-permission set
\* succeeds.
C15_EmptyRequirementSucceeds ==
    [][ (AuthorizeAnswered /\ last'.req.perms = {})
            => last'.status = HTTP_200_OK ]_vars

\* An identity that holds no permission at all has passed the guard with an
\* empty required set.
C15_Witness ==
    /\ last # NoRequest
    /\ last.req.op = "authorize"
    /\ last.req.perms = {}
    /\ last.req.token = Some("tech")
    /\ last.status = HTTP_200_OK
    /\ get_user_permissions("tech") = {}

\* C16: if a role assigned to the identity carries the permission '*',
\* authorize succeeds for every non-empty required-permission set.
C16_WildcardSucceeds ==
    [][ (/\ AuthorizeAnswered
         /\ last'.req.perms # {}
         /\ HoldsWildcard(Get(last'.req.token)))
            => last'.status = HTTP_200_OK ]_vars

\* An identity with two roles, one of them carrying '*', has passed the guard
\* for a permission none of its roles names.
C16_Witness ==
    /\ last # NoRequest
    /\ last.req.op = "authorize"
    /\ last.req.token = Some("tech")
    /\ last.req.perms = {"prescription.issue"}
    /\ last.status = HTTP_200_OK
    /\ Cardinality({rbu \in role_by_user : rbu.username = "tech"}) = 2
    /\ "*" \in get_user_permissions("tech")
    /\ "prescription.issue" \notin get_user_permissions("tech")

\* C17: for an identity without the wildcard and a non-empty required set R,
\* authorize succeeds iff the identity holds at least one member of R;
\* otherwise it is answered 403 'Unauthorized.', not the 401 of a rejected
\* token.
C17_AnyOneSuffices ==
    [][ (/\ AuthorizeAnswered
         /\ last'.req.perms # {}
         /\ ~HoldsWildcard(Get(last'.req.token)))
            => IF \E p \in last'.req.perms :
                     p \in EffectivePermissions(Get(last'.req.token),
                                                role_by_user, permissions_by_role)
               THEN last'.status = HTTP_200_OK
               ELSE /\ last'.status = HTTP_403_FORBIDDEN
                    /\ last'.detail = "Unauthorized."
                    /\ last'.status # CREDENTIALS_EXCEPTION.status ]_vars

\* An identity that holds one of two required permissions, and not the
\* other, has passed the guard.
C17_Witness ==
    /\ last # NoRequest
    /\ last.req.op = "authorize"
    /\ last.req.token = Some("tech")
    /\ last.req.perms = {"prescription.issue", "prescription.approve"}
    /\ last.status = HTTP_200_OK
    /\ get_user_permissions("tech") = {"prescription.issue"}

\* C18: in every state the permissions read for an identity are the union,
\* over the roles assigned to it, of the permissions assigned to each role
\* (empty without a role), and every authorize is decided on the edges as
\* they are at that call, so the first authorize after a completed
\* replacement of roles or permissions is decided on the new edges.
C18_EffectivePermissionsAreCurrent ==
    /\ [](\A u \in users :
            get_user_permissions(u.username)
                = EffectivePermissions(u.username, role_by_user,
                                       permissions_by_role))
    /\ [][ (AuthorizeAnswered /\ last'.req.perms # {})
            => LET held == EffectivePermissions(Get(last'.req.token),
                                                role_by_user, permissions_by_role)
               IN  last'.status = HTTP_200_OK
                      <=> ("*" \in held \/ held \cap last'.req.perms # {}) ]_vars

\* After replacements have completed, an identity with two roles that holds
\* 'prescription.approve' only through the second passes the guard for it,
\* which the initial edges would have refused.
C18_Witness ==
    /\ last # NoRequest
    /\ last.req.op = "authorize"
    /\ last.req.token = Some("tech")
    /\ last.req.perms = {"prescription.approve"}
    /\ last.status = HTTP_200_OK
    /\ "prescription.approve"
          \notin EffectivePermissions("tech", InitRoleByUser, InitPermissionsByRole)
    /\ "prescription.approve" \notin RolePermissionNames("r_tech", permissions_by_role)
    /\ "*" \notin get_user_permissions("tech")
    /\ \A w \in Workers : requests[w].pc = "idle"

\* C19: a validly signed, unexpired token whose subject is not stored is
\* answered like an invalid token: 401 'Could not validate credentials'.
C19_MissingSubjectIsUnauthenticated ==
    [][ (Answered("authorize") /\ last'.req.token = Some("ghost"))
            => /\ last'.status = HTTP_401_UNAUTHORIZED
               /\ last'.detail = CREDENTIALS_EXCEPTION.detail ]_vars

C21_ZeroTtlTokenAlwaysRejected ==
    [][ \A i \in issued_tokens :
            ( /\ Answered("authorize")
              /\ last'.req.token = i.token
              /\ i.token_expiry_minutes = 0
              /\ now >= i.issued_at )
            => last'.status = HTTP_401_UNAUTHORIZED ]_vars

\* C22: login hands out a token exactly when the username is stored and the
\* password verifies against the stored bcrypt hash; an unknown username, a
\* wrong password and a stored password of no recognised encoding are all
\* answered 401 'Unauthorized.' with no token, the last one without an
\* unhandled exception.
C22_LoginOnlyOnVerifiedSecret ==
    [][ Answered("login") =>
            LET username == last'.req.username
                password == last'.req.password
                verifies ==
                    /\ \E u \in users : u.username = username
                    /\ stored_passwords[username] = bcrypt(password)
                access_token ==
                    <<"claims", now + 60 * DefaultTokenExpiryMinutes, username>>
            IN  IF verifies
                THEN /\ last'.status = HTTP_200_OK
                     /\ last'.body = Some(access_token)
                     /\ \E i \in issued_tokens' : i.token = access_token
                ELSE /\ last'.status = HTTP_401_UNAUTHORIZED
                     /\ last'.detail = "Unauthorized."
                     /\ last'.body = None
                     /\ issued_tokens' = issued_tokens ]_vars

\* A login with the very text stored for an identity whose password is not
\* a recognised hash has been declined.
C22_Witness ==
    /\ last # NoRequest
    /\ last.req.op = "login"
    /\ last.req.username = "tech2"
    /\ stored_passwords["tech2"] = <<last.req.password>>
    /\ PWD_CONTEXT_verify(last.req.password, stored_passwords["tech2"]).UnknownHashError
    /\ last.status = HTTP_401_UNAUTHORIZED

\* C23: add_permissions_to_role with a list holding at least one permission
\* id that is not stored is answered 400 'One or more permissions not valid.'
\* and writes no permissions_by_role row, whatever valid ids the list holds
\* besides.
C23_InvalidPermissionDeclinedWithoutChange ==
    [][ ( /\ Answered("add_permissions_to_role")
          /\ \E p \in Ids(last'.req.permissions) :
                \A x \in permissions : x.permission_id # p )
        => /\ last'.status = HTTP_400_BAD_REQUEST
           /\ last'.detail = "One or more permissions not valid."
           /\ requests[last'.worker].pc = "idle"
           /\ permissions_by_role' = permissions_by_role ]_vars

\* A list of one stored and one unknown id has been declined while the role
\* still holds a permission.
C23_Witness ==
    /\ last # NoRequest
    /\ last.req.op = "add_permissions_to_role"
    /\ last.req.permissions = <<"p_issue", "p_none">>
    /\ last.status = HTTP_400_BAD_REQUEST
    /\ RolePermissionNames(last.req.role_id, permissions_by_role) # {}

\* The permission ids a role holds.
RolePermissionIds(role_id, pbr_rows) ==
    {pbr.permission_id : pbr \in {x \in pbr_rows : x.role_id = role_id}}

UserRoleIds(username, rbu_rows) ==
    {rbu.role_id : rbu \in {x \in rbu_rows : x.username = username}}

\* C25: assign_roles with a list holding a role id that is not stored is
\* answered 400 and writes no role_by_user row; with stored ids only, run
\* alone, it is answered 204 and leaves the user with exactly the roles of
\* the list, none for the empty list; no step of it changes the rows of
\* another user.
C25_AssignRolesReplacesOrDeclines ==
    [][ /\ ( /\ Answered("assign_roles")
              /\ get_current_user(last'.req.token).ok )
            => IF Ids(last'.req.roles) \subseteq {x.role_id : x \in roles}
               THEN /\ last'.status = HTTP_204_NO_CONTENT
                    /\ UserRoleIds(last'.req.username, role_by_user')
                         = Ids(last'.req.roles)
               ELSE /\ last'.status = HTTP_400_BAD_REQUEST
                    /\ last'.detail = "One or more roles not found."
                    /\ requests[last'.worker].pc = "idle"
                    /\ role_by_user' = role_by_user
        /\ \A w \in Workers :
              requests[w].pc \in {"remove_existing_roles_for_user", "add_role_to_user"}
              => \A u \in users :
                    u.username # requests[w].username
                    => UserRoleIds(u.username, role_by_user')
                         = UserRoleIds(u.username, role_by_user) ]_vars

\* The one role of a user has been replaced by another.
C25_Witness ==
    /\ last # NoRequest
    /\ last.req.op = "assign_roles"
    /\ last.req.username = "tech"
    /\ last.req.roles = <<"r_gp">>
    /\ last.status = HTTP_204_NO_CONTENT
    /\ UserRoleIds("tech", InitRoleByUser) = {"r_tech"}
    /\ UserRoleIds("tech", role_by_user) = {"r_gp"}
    /\ UserRoleIds("gp", role_by_user) = {"r_gp"}

\* Both requests of the race have been answered, or the only one sent has.
RaceOver == last # NoRequest /\ \A w \in Workers : requests[w].pc = "idle"

\* C26: two concurrent add_permissions_to_role calls for one role with lists
\* A and B can end with the role holding neither A nor B.  What they can end
\* with: a set within A \cup B that holds all of A or all of B (the inserts
\* made after the later DELETE), or the role's earlier set if no call named
\* that role.
C26_RaceOutcomes ==
    RaceOver =>
        \A role_id \in {"r_tech", "r_gp"} :
            LET final == RolePermissionIds(role_id, permissions_by_role)
                A == Ids(RaceList(1))
                B == Ids(RaceList(2))
            IN  \/ final = RolePermissionIds(role_id, InitPermissionsByRole)
                \/ /\ final \subseteq A \cup B
                   /\ A \subseteq final \/ B \subseteq final

\* Both calls named the same role and are over, and the role holds neither
\* the first list nor the second.
C26_Witness ==
    /\ RaceOver
    /\ LET final == RolePermissionIds("r_tech", permissions_by_role)
       IN  /\ final # Ids(RaceList(1))
           /\ final # Ids(RaceList(2))
           /\ final # RolePermissionIds("r_tech", InitPermissionsByRole)
    /\ RolePermissionIds("r_gp", permissions_by_role)
          = RolePermissionIds("r_gp", InitPermissionsByRole)

\* The operations behind the guard, and the permissions their routes name:
\* the routes of role administration name none.
GuardedOps ==
    {"create", "modify", "approve", "issue", "delete", "complete",
     "assign_roles", "add_permissions_to_role"}
RequiredPermissions(op) ==
    CASE op = "create"   -> {"prescription.create"}
      [] op = "modify"   -> {"prescription.modify"}
      [] op = "approve"  -> {"prescription.approve"}
      [] op = "issue"    -> {"prescription.issue"}
      [] op = "delete"   -> {"prescription.delete"}
      [] op = "complete" -> {"bloodwork-request.complete"}
      [] OTHER           -> {}
\* The token is refused, or the identity it names holds neither the wildcard
\* nor a permission the route names.
FailsGuard(op, token) ==
    \/ token \in RejectedTokens
    \/ /\ token \notin RejectedTokens
       /\ RequiredPermissions(op) # {}
       /\ LET held == EffectivePermissions(Get(token), role_by_user,
                                           permissions_by_role)
          IN  /\ "*" \notin held
              /\ held \cap RequiredPermissions(op) = {}
Stored == <<repeat_prescriptions, blood_requests, role_by_user, permissions_by_role>>

\* C27: in every request to a prescription, bloodwork-completion or
\* role-administration operation the token is verified before the
\* permissions are looked at, and both before any write: a request that
\* fails either is answered in its first step, not with success and never
\* 403 for a refused token, and leaves prescriptions, bloodwork requests
\* and both edge tables as they were; 401 'Could not validate credentials'
\* and 403 'Unauthorized.' are given to such requests only.
C27_GuardBeforeMutation ==
    [][ \A op \in GuardedOps :
            Answered(op) =>
                LET token == last'.req.token
                    first == requests[last'.worker].pc = "idle"
                    refused ==
                        \/ /\ last'.status = CREDENTIALS_EXCEPTION.status
                           /\ last'.detail = CREDENTIALS_EXCEPTION.detail
                        \/ /\ last'.status = NOT_ALLOWED_EXCEPTION.status
                           /\ last'.detail = NOT_ALLOWED_EXCEPTION.detail
                IN  /\ FailsGuard(op, token)
                        => /\ first
                           /\ UNCHANGED Stored
                           /\ refused \/ last'.status = HTTP_404_NOT_FOUND
                    /\ token \in RejectedTokens
                        => last'.status # HTTP_403_FORBIDDEN
                    /\ refused
                        => FailsGuard(op, token) /\ first /\ UNCHANGED Stored ]_vars

\* An identity without the permission has been refused the deletion of a
\* prescription that is still stored.
C27_Witness ==
    /\ last # NoRequest
    /\ last.req.op = "delete"
    /\ last.req.token = Some("pat")
    /\ last.status = HTTP_403_FORBIDDEN
    /\ Row(last.req.prescription_id) # {}

\* C28: role_by_user and permissions_by_role are written only in requests of
\* an identity that holds the wildcard, so an identity that starts without
\* any permission never passes the guard of a route that names permissions,
\* whatever requests it sends itself.
C28_NoSelfEscalation ==
    [][ /\ \A w \in Workers :
              ( /\ requests[w].pc \in {"remove_existing_roles_for_user",
                                        "add_role_to_user",
                                        "remove_existing_permissions_for_role",
                                        "add_permission_to_role"}
                /\ <<role_by_user, permissions_by_role>>'
                      # <<role_by_user, permissions_by_role>> )
              => "*" \in EffectivePermissions(Get(requests[w].token),
                                             role_by_user, permissions_by_role)
        /\ ( /\ Answered("authorize")
              /\ last'.req.token = Some("pat")
              /\ EffectivePermissions("pat", InitRoleByUser, InitPermissionsByRole) = {}
              /\ last'.req.perms # {} )
            => last'.status = HTTP_403_FORBIDDEN ]_vars

\* C29: Modify run alone writes the supplied medication and the supplied
\* time statement and nothing else: the field that was not supplied, the
\* approval, the issue data, both institutions and every other row stay as
\* they were.  A supplied medication that is not stored is declined 400
\* 'Medication invalid.', a supplied time statement that does not parse 400
\* 'Time statement invalid.', the reasons of Create, and nothing is written.
C29_ModifyWritesSuppliedFieldsOnly ==
    [][ ( /\ Answered("modify")
          /\ Row(last'.req.prescription_id) # {} )
        => LET changes == last'.req.changes
               before == CHOOSE rp \in Row(last'.req.prescription_id) : TRUE
               unknown_medication ==
                   /\ changes.medication_id # None
                   /\ \A m \in medications :
                        m.medication_id # Get(changes.medication_id)
               unparsed_statement ==
                   /\ changes.time_statement # None
                   /\ ParseTimeRecurrence(Get(changes.time_statement)) = None
           IN  IF unknown_medication
               THEN /\ last'.status = HTTP_400_BAD_REQUEST
                    /\ last'.detail = "Medication invalid."
                    /\ last'.detail = check_medication("med_none").detail
                    /\ UNCHANGED <<repeat_prescriptions, blood_requests>>
               ELSE IF unparsed_statement
               THEN /\ last'.status = HTTP_400_BAD_REQUEST
                    /\ last'.detail = "Time statement invalid."
                    /\ last'.detail = check_iso8601_time_statement("monthly").detail
                    /\ UNCHANGED <<repeat_prescriptions, blood_requests>>
               ELSE /\ last'.status = HTTP_200_OK
                    /\ blood_requests' = blood_requests
                    /\ repeat_prescriptions' =
                         (repeat_prescriptions \ {before}) \cup
                         {[before EXCEPT
                             !.medication_id =
                                 IF changes.medication_id = None THEN @
                                 ELSE Get(changes.medication_id),
                             !.time_statement =
                                 IF changes.time_statement = None THEN @
                                 ELSE Get(changes.time_statement)]} ]_vars

\* The time statement alone of an issued prescription has been replaced.
C29_Witness ==
    /\ last # NoRequest
    /\ last.req.op = "modify"
    /\ last.status = HTTP_200_OK
    /\ last.req.changes.medication_id = None
    /\ last.req.changes.time_statement # None
    /\ \E rp \in Row(last.req.prescription_id) :
          /\ Issued(rp)
          /\ Approved(rp)
          /\ rp.time_statement = Get(last.req.changes.time_statement)
          /\ rp.time_statement # ParseTimeRecurrence(rp.time_statement)[1]
          /\ rp.medication_id = "med_plain"

\* C30: Delete is answered with success only when the prescription is gone
\* from the store; when the DELETE fails and the row is still stored the
\* answer is 500 'Lost connection to the database'; a request that passes
\* the guard for a prescription that is not stored is answered 404
\* 'Prescription not found.' in its first step, without a DELETE.
C30_DeleteSuccessMeansRemoved ==
    [][ Answered("delete") =>
            LET prescription_id == last'.req.prescription_id
                executed == requests[last'.worker].pc = "delete_prescription"
            IN  /\ last'.status = HTTP_204_NO_CONTENT
                    => /\ executed
                       /\ \A rp \in repeat_prescriptions' :
                            rp.prescription_id # prescription_id
                /\ ( /\ executed
                      /\ \E rp \in repeat_prescriptions' :
                            rp.prescription_id = prescription_id )
                    => /\ last'.status = HTTP_500_INTERNAL_SERVER_ERROR
                       /\ last'.detail = "Lost connection to the database"
                /\ ( /\ ~FailsGuard("delete", last'.req.token)
                      /\ ~executed
                      /\ Row(prescription_id) = {} )
                    => /\ last'.status = HTTP_404_NOT_FOUND
                       /\ last'.detail = "Prescription not found."
                       /\ UNCHANGED <<repeat_prescriptions, blood_requests>> ]_vars

\* A DELETE has failed: the answer is the fatal one and the prescription is
\* still stored.
C30_Witness ==
    /\ last # NoRequest
    /\ last.req.op = "delete"
    /\ last.status = HTTP_500_INTERNAL_SERVER_ERROR
    /\ last.detail = "Lost connection to the database"
    /\ Row(last.req.prescription_id) # {}

\* The pharmacies stored among the registered institutions.
AddedPharmacies == {i \in added_institutions : i.institution_type = PHARMACY}
\* The request of kind op that has just been declined as 'User already exists'.
DeclinedAsExistingUser(op) ==
    /\ last # NoRequest
    /\ last.req.op = op
    /\ last.status = HTTP_400_BAD_REQUEST
    /\ last.detail = "User already exists"

\* C31: when pharmacy creation is declined with 400 'User already exists',
\* the pharmacy it inserted has been deleted again: no institution carries
\* the request's name or the id handed out, no pending identity is attached
\* to that id, every stored pharmacy has its pending master identity and
\* every registration token belongs to a pending identity, one token each.
C31_PharmacyRolledBackOnUserConflict ==
    DeclinedAsExistingUser("create_pharmacy") =>
        /\ \A i \in added_institutions :
            /\ i.name # last.req.name
            /\ i.institution_id # last.req.institution_id
        /\ \A pu \in pending_users : pu.institution_id # last.req.institution_id
        /\ \A i \in AddedPharmacies :
            \E pu \in pending_users : pu.institution_id = i.institution_id
        /\ \A t \in registration_tokens :
            \E pu \in pending_users : pu.username = t.username
        /\ Cardinality(registration_tokens) = Cardinality(pending_users)

\* A pharmacy creation has been declined for a master username that was
\* already pending for another, stored, pharmacy.
C31_Witness ==
    /\ DeclinedAsExistingUser("create_pharmacy")
    /\ \E pu \in pending_users :
        /\ pu.username = last.req.username
        /\ \E i \in AddedPharmacies : i.institution_id = pu.institution_id

\* C32: when medical-practice creation is declined with 400 'User already
\* exists', no institution carrying the request's name is stored, so that a
\* retry under the same name is not refused as 'Practice already exists'.
C32_PracticeGoneAfterUserConflict ==
    DeclinedAsExistingUser("create_practice") =>
        \A i \in added_institutions : i.name # last.req.name

\* C33: Approve reads the prescription in one statement and writes
\* approved_at in a later one without looking again: a request that has
\* passed its read while approved_at was unset writes approved_at and is
\* answered 204 also when another Approve has set approved_at in between,
\* so both requests succeed and approved_at is written twice.
C33_SecondApproveAlsoWrites ==
    [][ \A w \in Workers :
          ( /\ requests[w].pc = "mark_prescription_approved"
            /\ requests'[w] = Idle
            /\ \E rp \in Row(requests[w].prescription_id) : Approved(rp) )
          => /\ last'.worker = w
             /\ last'.status = HTTP_204_NO_CONTENT
             /\ \A rp \in repeat_prescriptions' :
                  rp.prescription_id = requests[w].prescription_id
                    => rp.approved_at = Some(now) ]_vars

\* One Approve has just been answered 204 and the prescription is approved,
\* while a second Approve for the same prescription, which read it before,
\* is about to write approved_at.
C33_Witness ==
    /\ last # NoRequest
    /\ last.req.op = "approve"
    /\ last.status = HTTP_204_NO_CONTENT
    /\ \E w \in Workers \ {last.worker} :
        /\ requests[w].pc = "mark_prescription_approved"
        /\ requests[w].prescription_id = last.req.prescription_id
        /\ \E rp \in Row(last.req.prescription_id) : Approved(rp)

\* C34: once issued_at and issued_by of a prescription are set, no step
\* changes them, whatever Issue requests of identities of the filling
\* pharmacy interleave.
C34_IssueRecordedOnce ==
    [][ \A rp \in repeat_prescriptions :
          Issued(rp) =>
            \A new \in repeat_prescriptions' :
                new.prescription_id = rp.prescription_id
                    => /\ new.issued_at = rp.issued_at
                       /\ new.issued_by = rp.issued_by ]_vars

\* C35: the UPDATE of a Modify request leaves the field the request did not
\* supply as it is stored at that moment, also when another Modify of the
\* same prescription has written that field since the request read the row.
C35_ModifyKeepsUnsuppliedField ==
    [][ \A w \in Workers :
          ( /\ requests[w].pc = "update_prescription"
            /\ requests'[w] = Idle )
          => \A rp \in Row(requests[w].prescription_id) :
              \A new \in repeat_prescriptions' :
                new.prescription_id = rp.prescription_id
                  => /\ requests[w].changes.medication_id = None
                          => new.medication_id = rp.medication_id
                     /\ requests[w].changes.time_statement = None
                          => new.time_statement = rp.time_statement ]_vars

\* C36: while the permissions of a role or the roles of an identity are
\* replaced by a list that grants prescription.issue to tech as the list
\* before did, no authorize of tech for prescription.issue is answered 403.
C36_GrantHeldThroughoutReplace ==
    ~ ( /\ last # NoRequest
        /\ last.req.op = "authorize"
        /\ last.req.token = Some("tech")
        /\ last.req.perms = {"prescription.issue"}
        /\ last.status = HTTP_403_FORBIDDEN )

\* The worker's conversion has inserted the user and has not answered yet.
Converting(w, username) ==
    /\ requests[w].pc \in {"add_role_to_user", "delete_pending_user"}
    /\ requests[w].op = "convert"
    /\ requests[w].username = username

\* C37: over any interleaving of conversion requests for one pending
\* identity at most one succeeds: the user row is inserted only while no
\* user of that name is stored and is never removed, so only one request
\* per username ever gets past create_user, and only such a request is
\* answered 201.  When it is, the pending identity and its registration
\* token are gone, the identity is stored once and holds exactly the core
\* role mapped from the token type; the token is no longer stored, so a
\* later request with it is declined in its first step.
C37_ConversionSucceedsOnce ==
    [][ /\ added_users \subseteq added_users'
        /\ \A w \in Workers :
            LET req == requests[w]
            IN  /\ ( /\ req.pc = "create_new_user"
                     /\ requests'[w].pc = "add_role_to_user" )
                    => /\ \A u \in AllUsers : u.username # req.username
                       /\ \A v \in Workers : ~Converting(v, req.username)
                /\ ( /\ req.pc = "delete_pending_user"
                     /\ requests'[w] = Idle )
                    => /\ last'.worker = w
                       /\ last'.status = HTTP_201_CREATED
                       /\ \A pu \in pending_users' : pu.username # req.username
                       /\ \A t \in registration_tokens' : t.username # req.username
                       /\ Cardinality({u \in AllUsers' : u.username = req.username}) = 1
                       /\ {rbu \in role_by_user' : rbu.username = req.username}
                            = {[username |-> req.username,
                                role_id |-> role_assignments(req.token_type)]}
                       /\ \A t \in registration_tokens' :
                            t.token_id # req.registration_token
        /\ ( Answered("convert") /\ last'.status = HTTP_201_CREATED )
            => requests[last'.worker].pc = "delete_pending_user" ]_vars

\* A conversion has just succeeded while a second request with the same
\* token, accepted before, is still on its way.
C37_Witness ==
    /\ last # NoRequest
    /\ last.req.op = "convert"
    /\ last.status = HTTP_201_CREATED
    /\ \E u \in added_users : u.username = last.req.username
    /\ \E w \in Workers \ {last.worker} :
        /\ requests[w].pc \in {"get_pending_user_by_username", "create_new_user"}
        /\ requests[w].registration_token = last.req.registration_token

\* C38: a modify, approve, issue or delete request whose token is refused is
\* answered 401, and one whose identity lacks the permission 403, whether
\* or not the prescription of the (well-formed) id is stored; neither is
\* answered 404 'Prescription not found.'.
C38_GuardBeforeLookup ==
    ( /\ last # NoRequest
      /\ last.req.op \in {"modify", "approve", "issue", "delete"}
      /\ last.req.prescription_id # MalformedId
      /\ FailsGuard(last.req.op, last.req.token) )
    => /\ last.status = IF last.req.token \in RejectedTokens
                        THEN HTTP_401_UNAUTHORIZED ELSE HTTP_403_FORBIDDEN
       /\ last.detail # "Prescription not found."

\* The pharmacy assignments on file for an identity.
AssignmentsOf(username) == {a \in AllAssignments : a.username = username}

\* C39: when an identity has just set its preferred pharmacy with success,
\* it has a single pharmacy assignment, the one to that pharmacy.
C39_SinglePreferredPharmacy ==
    ( /\ last # NoRequest
      /\ last.req.op = "prefer"
      /\ last.status = HTTP_200_OK )
    => AssignmentsOf(last.req.username)
        = {[username |-> last.req.username, institution_id |-> last.req.pharmacy_id]}

====
